---- MODULE Spec2Model ----
(***************************************************************************)
(* Credential lifecycle of openai-accounts-cli: Service.SetAuth and        *)
(* Service.RemoveAuth (internal/application) run as sagas over two         *)
(* stores that fail independently, the account repository (accounts.toml)  *)
(* and the secret store.  Every call of a collaborator (GetByID, Save,     *)
(* Put, Delete) is one step, and it either succeeds or returns an error.   *)
(* A failing collaborator call leaves its store as it was: Repository.Save *)
(* returns its errors before the rename that replaces accounts.toml (the   *)
(* chmod after the rename repeats the mode the temporary file was given),  *)
(* and a secret store that reports a failed Put or Delete has not written  *)
(* or removed the key.  Calls run one at a time, as the CLI issues them.   *)
(*                                                                         *)
(* Strings are sequences: the empty secret reference "" is <<>>, a secret  *)
(* key is <<k>> and a secret value is <<v>>.                               *)
(*                                                                         *)
(* More components follow, each with a specification of its own in which   *)
(* the other components rest: the refresh of OAuth tokens under a lock per *)
(* secret reference (cmd: ensureFreshTokens, RefreshSpec), the batch fetch *)
(* over several accounts (cmd: fetchAccountsConcurrently, BatchSpec), the  *)
(* choice of a pool account (PoolService.PickAccount, PickSpec), the pool  *)
(* service over time (PoolSpec), the session continuity service            *)
(* (SessionSpec), the logical session id (ResolveSpec), the chain of       *)
(* secret stores (ChainSpec), concurrent saves of accounts (SaveSpec), the *)
(* round trip through the repositories (TripSpec), the device-flow         *)
(* polling loop (PollSpec, PollLiveSpec), the replacement of a repository  *)
(* file (WriteSpec) and concurrent calls of the session continuity        *)
(* service (RaceSpec).  RefreshLiveSpec and BatchLiveSpec are RefreshSpec  *)
(* and BatchSpec under a fair scheduler.                                   *)
(***************************************************************************)
EXTENDS Integers, Sequences, FiniteSets, Bags, TLC

NumKeys == 3
NumValues == 1
MaxCalls == 2

Keys == {<<k>> : k \in 1..NumKeys}
Values == {<<v>> : v \in 1..NumValues}
\* the value of every secret stored before the first call
OldValue == <<0>>
NoRef == <<>>
NoMethod == ""
AuthMethodAPIKey == "api_key"
AuthMethodChatGPT == "chatgpt"
Methods == {AuthMethodAPIKey, AuthMethodChatGPT}
Outcomes == {"ok", "fail"}

VARIABLES
    repo,       \* the record of the account in accounts.toml, or NoAccount
    store,      \* the secret store: a map from key to value
    pc,         \* position of the running call, "idle" between calls
    op,         \* the running (or last) call: its name and arguments
    account,    \* local `account` of the running call
    originalAccount,    \* local `originalAccount`
    secretRefs, \* local `previousSecretRefs` (SetAuth) / `secretRefs` (RemoveAuth)
    idx,        \* position of the range loop over secretRefs
    restoreAccount,     \* local `restoreAccount`
    err,        \* locals `err` (main) and `rollbackErr` (rollback) of the running call
    ret,        \* what the last call returned ("ok" or "error", with the failures the
                \* error matches); "none" before the first return and while a call runs
    pre,        \* history: repo and store when the running (or last) call began
    failed,     \* history: the collaborator calls that failed in the running (or last) call
    repo0,      \* history: the record the accounts file held at start
    calls       \* number of calls started

\* ---- token refresh (cmd: fetchAndPersistLimitsUncached, ensureFreshTokens) ----
VARIABLES
    tokenStore,     \* app.secretStore: the encoded OAuth token record under each secret reference
    refreshLocks,   \* the sync.Map refreshLocks: the mutexes created so far, each with its holder
    now,            \* the clock app.now() reads, in minutes
    issued,         \* the number of access tokens the token endpoint has issued
    fetch,          \* per fetch worker: position, locals and return of fetchAndPersistLimitsUncached
    persisted       \* history: the refreshes persisted so far (secret reference, stale token, worker)

\* ---- batch fetch (cmd: fetchAccountsConcurrently) ----
VARIABLES
    goroutine,      \* per account: the position of its goroutine
    semaphore,      \* number of elements in the channel `semaphore`
    cancelled,      \* ctx.Done() is closed
    results,        \* the channel `results`: the fetchResults sent and not yet received
    closed,         \* close(results) has run
    successes,      \* local `successes` of the collecting loop
    failures,       \* local `failures` of the collecting loop
    written,        \* what was written to errWriter
    batchRet,       \* what fetchAccountsConcurrently returned, once it has
    own             \* history: what fetchAndPersistLimits returned for each account

\* ---- PoolService.PickAccount ----
VARIABLES
    poolAccounts,   \* the accounts of accounts.toml, by id
    accountOrder,   \* their ids in the order accounts.List returns them
    pool,           \* the default pool as pools.toml holds it
    picked,         \* what PickAccount returned, status "none" before it returns
    poolRet,        \* the last call of the pool service and what it returned
    earlier         \* history: the account the PickAccount before the last picked

\* ---- SessionContinuityService ----
VARIABLES
    runtime,        \* the pool's entry of pool_runtime.toml, as the file holds it
    sessRet         \* the last call of the continuity service and what it returned

\* ---- ResolveLogicalSessionID ----
VARIABLES
    resolved        \* the calls made so far, each with its inputs and its id

\* ---- chain.Store ----
VARIABLES
    primary,        \* the secrets of the primary backend, by key
    fallback,       \* the secrets of the fallback backend, by key
    chainRet        \* the last call of the chain: backends invoked, errors, result

\* ---- toml.Repository under concurrent Save ----
VARIABLES
    saver,          \* per goroutine: its repository, its account, where its Save is
    pathLockMap,    \* the process's lock of every path opened, with its holder
    accountsFile    \* the accounts of accounts.toml, in the order of the file

\* ---- save and load through the repositories ----
VARIABLES
    trip            \* the last value saved and the value loaded back after it

\* ---- DeviceFlowAdapter.PollToken ----
VARIABLES
    wallClock,      \* time.Now(), in units of five seconds
    poller          \* the call of PollToken: its locals, where it is, its result

\* ---- writeSchema / writeTOMLFile: the replacement of a repository file ----
VARIABLES
    fs,             \* the directory of the file: the destination and the temp file
    writing         \* the write in progress: where it is, its data, its result

\* ---- SessionContinuityService called by concurrent callers ----
VARIABLES
    poolFile,       \* the runtime file of the pool as persisted
    caller          \* per caller: the call, where it is, the runtime it loaded

credVars == <<repo, store, pc, op, account, originalAccount, secretRefs, idx,
              restoreAccount, err, ret, pre, failed, repo0, calls>>
refreshVars == <<tokenStore, refreshLocks, now, issued, fetch, persisted>>
batchVars == <<goroutine, semaphore, cancelled, results, closed, successes,
               failures, written, batchRet, own>>
pickVars == <<poolAccounts, accountOrder, pool, picked, poolRet, earlier>>
sessionVars == <<runtime, sessRet>>
resolveVars == <<resolved>>
chainVars == <<primary, fallback, chainRet>>
saveVars == <<saver, pathLockMap, accountsFile>>
tripVars == <<trip>>
pollVars == <<wallClock, poller>>
midVars == <<sessionVars, resolveVars, chainVars, saveVars, tripVars, pollVars>>
writeVars == <<fs, writing>>
raceVars == <<poolFile, caller>>
lastVars == <<writeVars, raceVars>>
laterVars == <<midVars, lastVars>>
vars == <<credVars, refreshVars, batchVars, pickVars, laterVars>>

\* Each specification runs one component; the others rest in these states.
CredOff ==
    /\ repo = [exists |-> FALSE]
    /\ store = <<>>
    /\ pc = "idle"
    /\ op = [name |-> "none"]
    /\ account = [exists |-> FALSE]
    /\ originalAccount = [exists |-> FALSE]
    /\ secretRefs = <<>>
    /\ idx = 0
    /\ restoreAccount = [exists |-> FALSE]
    /\ err = [main |-> {}, rollback |-> {}]
    /\ ret = [status |-> "none", errs |-> {}]
    /\ pre = [repo |-> repo, store |-> store]
    /\ failed = {}
    /\ repo0 = repo
    /\ calls = 0
RefreshOff ==
    /\ tokenStore = <<>>
    /\ refreshLocks = <<>>
    /\ now = 0
    /\ issued = 0
    /\ fetch = <<>>
    /\ persisted = {}
BatchOff ==
    /\ goroutine = <<>>
    /\ semaphore = 0
    /\ cancelled = FALSE
    /\ results = EmptyBag
    /\ closed = FALSE
    /\ successes = EmptyBag
    /\ failures = EmptyBag
    /\ written = EmptyBag
    /\ batchRet = [returned |-> FALSE]
    /\ own = <<>>
PickOff ==
    /\ poolAccounts = <<>>
    /\ accountOrder = <<>>
    /\ pool = <<>>
    /\ picked = [status |-> "none"]
    /\ poolRet = [op |-> "none"]
    /\ earlier = <<>>
SessionOff ==
    /\ runtime = <<>>
    /\ sessRet = [op |-> "none"]
ResolveOff ==
    /\ resolved = {}
ChainOff ==
    /\ primary = <<>>
    /\ fallback = <<>>
    /\ chainRet = [op |-> "none"]
SaveOff ==
    /\ saver = <<>>
    /\ pathLockMap = <<>>
    /\ accountsFile = <<>>
TripOff ==
    /\ trip = [kind |-> "none"]
PollOff ==
    /\ wallClock = 0
    /\ poller = [pc |-> "none"]
MidOff == SessionOff /\ ResolveOff /\ ChainOff /\ SaveOff /\ TripOff /\ PollOff
WriteOff ==
    /\ fs = <<>>
    /\ writing = [pc |-> "none"]
RaceOff ==
    /\ poolFile = <<>>
    /\ caller = <<>>
LastOff == WriteOff /\ RaceOff
LaterOff == MidOff /\ LastOff
earlierVars == <<credVars, refreshVars, batchVars, pickVars>>
SessionOnly == UNCHANGED <<earlierVars, resolveVars, chainVars, saveVars, tripVars, pollVars, lastVars>>
ResolveOnly == UNCHANGED <<earlierVars, sessionVars, chainVars, saveVars, tripVars, pollVars, lastVars>>
ChainOnly == UNCHANGED <<earlierVars, sessionVars, resolveVars, saveVars, tripVars, pollVars, lastVars>>
SaveOnly == UNCHANGED <<earlierVars, sessionVars, resolveVars, chainVars, tripVars, pollVars, lastVars>>
TripOnly == UNCHANGED <<earlierVars, sessionVars, resolveVars, chainVars, saveVars, pollVars, lastVars>>
PollOnly == UNCHANGED <<earlierVars, sessionVars, resolveVars, chainVars, saveVars, tripVars, lastVars>>
WriteOnly == UNCHANGED <<earlierVars, midVars, raceVars>>
RaceOnly == UNCHANGED <<earlierVars, midVars, writeVars>>

NoAccount == [exists |-> FALSE]
NoOp == [name |-> "none"]

\* domain.Account, reduced to the fields the service reads or writes here;
\* name stands for every field SetAuth and RemoveAuth carry over untouched.
Account(name, method, metaRef, authRef) ==
    [exists |-> TRUE, name |-> name, method |-> method,
     metaRef |-> metaRef, authRef |-> authRef]

\* toSchema: the record written to the file keeps both references as given.
toSchema(a) ==
    [exists |-> TRUE, name |-> a.name, method |-> a.method,
     metaRef |-> a.metaRef, authRef |-> a.authRef]

\* fromSchema: an empty reference is filled in from the other one.
fromSchema(s) ==
    [s EXCEPT !.metaRef = IF s.metaRef = NoRef THEN s.authRef ELSE s.metaRef,
              !.authRef = IF s.authRef = NoRef THEN s.metaRef ELSE s.authRef]

\* Account{ID: id, Name: "Account <id>"} synthesized for an unknown id.
NewAccount == Account("Account id", NoMethod, NoRef, NoRef)

RECURSIVE Dedup(_, _)
Dedup(refs, seen) ==
    IF refs = <<>> THEN <<>>
    ELSE IF Head(refs) = NoRef \/ Head(refs) \in seen
         THEN Dedup(Tail(refs), seen)
         ELSE <<Head(refs)>> \o Dedup(Tail(refs), seen \cup {Head(refs)})

uniqueSecretRefs(refs) == Dedup(refs, {})

\* mutant of remainingSecretRefs: the list after the failing reference
remainingSecretRefsAfterFailed(refs, failedRef) ==
    IF \E i \in 1..Len(refs) : refs[i] = failedRef
    THEN LET first == CHOOSE i \in 1..Len(refs) :
                          /\ refs[i] = failedRef
                          /\ \A j \in 1..(i - 1) : refs[j] # failedRef
         IN SubSeq(refs, first + 1, Len(refs))
    ELSE <<>>

\* mutant of remainingSecretRefs: the whole list instead of refs[i:]
remainingSecretRefsAll(refs, failedRef) == refs

remainingSecretRefs(refs, failedRef) ==
    IF \E i \in 1..Len(refs) : refs[i] = failedRef
    THEN LET first == CHOOSE i \in 1..Len(refs) :
                          /\ refs[i] = failedRef
                          /\ \A j \in 1..(i - 1) : refs[j] # failedRef
         IN SubSeq(refs, first, Len(refs))
    ELSE <<>>

applySecretRefs(a, refs) ==
    [a EXCEPT !.metaRef = IF Len(refs) > 0 THEN refs[1] ELSE NoRef,
              !.authRef = IF Len(refs) > 1 THEN refs[2]
                          ELSE IF Len(refs) > 0 THEN refs[1] ELSE NoRef]

\* mutants of WithNewAuth: one of the two references is not updated
WithNewAuthOnlyAuth(a, method, key) ==
    [a EXCEPT !.method = method, !.authRef = key]

WithNewAuthOnlyMeta(a, method, key) ==
    [a EXCEPT !.method = method, !.metaRef = key]

\* SetAuth: account.Auth = {method, secretKey}; account.Metadata.SecretRef = secretKey
WithNewAuth(a, method, key) ==
    [a EXCEPT !.method = method, !.authRef = key, !.metaRef = key]

\* SetAuth: the record saved again after a previous reference could not be deleted
SetAuthRestore(orig, remaining) ==
    [applySecretRefs(orig, remaining) EXCEPT
        !.method = IF Len(remaining) = 0 THEN NoMethod ELSE orig.method]

\* RemoveAuth: account.Auth = Auth{}; account.Metadata.SecretRef = ""
WithoutAuth(a) ==
    [a EXCEPT !.method = NoMethod, !.authRef = NoRef, !.metaRef = NoRef]

\* RemoveAuth: the record saved again after a reference could not be deleted
RemoveAuthRestore(cleared, orig, remaining) ==
    [applySecretRefs(cleared, remaining) EXCEPT
        !.method = IF Len(remaining) > 0 THEN orig.method ELSE cleared.method]

\* errors.Join and fmt.Errorf("...: %w", e): the result matches (errors.Is)
\* every error it wraps.  An error value is the set of failures it matches.
NoErr == {}
Join(e1, e2) == e1 \cup e2
\* the locals `err` and `rollbackErr` of a call
NoErrs == [main |-> NoErr, rollback |-> NoErr]

\* mutant of SaveRollbackError: the rollback failure is dropped
SaveRollbackErrorDropped(saveErr, rollbackErr) == saveErr

\* SetAuth, save failed: the error returned after the rollback delete
SaveRollbackError(saveErr, rollbackErr) == Join(saveErr, rollbackErr)

\* SetAuth, delete of a previous reference failed: the error returned
DeleteRollbackError(deleteErr, rollbackErr) == Join(deleteErr, rollbackErr)

\* RemoveAuth, delete failed: the error returned after the restore save
RemoveRestoreError(deleteErr, restoreErr) == Join(deleteErr, restoreErr)

\* ---- the secret store (ports.SecretStore) ----
Has(s, k) == k \in DOMAIN s
StorePut(s, k, v) == [x \in DOMAIN s \cup {k} |-> IF x = k THEN v ELSE s[x]]
StoreDelete(s, k) == [x \in DOMAIN s \ {k} |-> s[x]]

\* the non-empty references of a record
Refs(a) == IF a.exists THEN {a.metaRef, a.authRef} \ {NoRef} ELSE {}

\* ---- the state at start ----
\* The accounts file is input: it holds no record for the account, a record
\* without auth, or a record with a method and references (both, one, or two
\* that differ: the service and the repository handle each).  The secret
\* store holds a value under exactly the keys the record references.
InitRecords ==
    {NoAccount, Account("n", NoMethod, NoRef, NoRef)}
    \cup {Account("n", AuthMethodAPIKey, m, a) :
            m \in Keys \cup {NoRef}, a \in Keys \cup {NoRef}}

Init ==
    /\ repo \in InitRecords
    /\ store = [k \in Refs(repo) |-> OldValue]
    /\ pc = "idle"
    /\ op = NoOp
    /\ account = NoAccount
    /\ originalAccount = NoAccount
    /\ secretRefs = <<>>
    /\ idx = 0
    /\ restoreAccount = NoAccount
    /\ err = NoErrs
    /\ ret = [status |-> "none", errs |-> NoErr]
    /\ pre = [repo |-> repo, store |-> store]
    /\ failed = {}
    /\ repo0 = repo
    /\ calls = 0
    /\ RefreshOff /\ BatchOff /\ PickOff /\ LaterOff

Locals == <<account, originalAccount, secretRefs, idx, restoreAccount, err>>

\* the call returns e (nil when e is empty)
Return(e) ==
    /\ pc' = "idle"
    /\ ret' = [status |-> IF e = NoErr THEN "ok" ELSE "error", errs |-> e]

Fail(step) == failed' = failed \cup {step}

\* ---- Service.SetAuth ----
SetAuthCall(method, secretKey, secretValue) ==
    /\ pc = "idle"
    /\ calls < MaxCalls
    /\ calls' = calls + 1
    /\ op' = [name |-> "SetAuth", method |-> method,
              secretKey |-> secretKey, secretValue |-> secretValue]
    /\ pc' = "sa_get"
    /\ account' = NoAccount
    /\ originalAccount' = NoAccount
    /\ secretRefs' = <<>>
    /\ idx' = 0
    /\ restoreAccount' = NoAccount
    /\ err' = NoErrs
    /\ pre' = [repo |-> repo, store |-> store]
    /\ failed' = {}
    /\ ret' = [status |-> "none", errs |-> NoErr]
    /\ UNCHANGED <<repo, store, repo0>>

\* account, err := s.repo.GetByID(ctx, id)
SetAuthGetByID(outcome) ==
    /\ pc = "sa_get"
    /\ IF outcome = "fail"
       THEN /\ Fail("get")
            /\ Return({"get"})
            /\ UNCHANGED <<account, originalAccount, secretRefs>>
       ELSE LET a == IF repo.exists THEN fromSchema(repo) ELSE NewAccount
            IN /\ account' = a
               /\ originalAccount' = a
               /\ secretRefs' = uniqueSecretRefs(<<a.metaRef, a.authRef>>)
               /\ pc' = "sa_put"
               /\ UNCHANGED <<ret, failed>>
    /\ UNCHANGED <<repo, store, op, idx, restoreAccount, err, pre, repo0, calls>>

\* s.store.Put(ctx, secretKey, secretValue)
SetAuthPut(outcome) ==
    /\ pc = "sa_put"
    /\ IF outcome = "fail"
       THEN /\ Fail("put")
            /\ Return({"put"})
            /\ UNCHANGED <<store, account>>
       ELSE /\ store' = StorePut(store, op.secretKey, op.secretValue)
            /\ account' = WithNewAuth(account, op.method, op.secretKey)
            /\ pc' = "sa_save"
            /\ UNCHANGED <<ret, failed>>
    /\ UNCHANGED <<repo, op, originalAccount, secretRefs, idx, restoreAccount,
                   err, pre, repo0, calls>>

\* s.repo.Save(ctx, account)
SetAuthSave(outcome) ==
    /\ pc = "sa_save"
    /\ IF outcome = "fail"
       THEN /\ Fail("save")
            /\ err' = [err EXCEPT !.main = {"save"}]
            /\ pc' = "sa_rollback"
            /\ UNCHANGED <<repo, idx>>
       ELSE /\ repo' = toSchema(account)
            /\ idx' = 1
            /\ pc' = "sa_loop"
            /\ UNCHANGED <<err, failed>>
    /\ UNCHANGED <<store, op, account, originalAccount, secretRefs,
                   restoreAccount, ret, pre, repo0, calls>>

\* mutant of SetAuthRollback: the save error is returned without the
\* compensating delete
SetAuthRollbackNoDelete(outcome) ==
    /\ pc = "sa_rollback"
    /\ Return(err.main)
    /\ UNCHANGED <<repo, store, op, Locals, pre, failed, repo0, calls>>

\* save failed: s.store.Delete(ctx, secretKey), then return
SetAuthRollback(outcome) ==
    /\ pc = "sa_rollback"
    /\ IF outcome = "fail"
       THEN /\ Fail("rollback")
            /\ Return(SaveRollbackError(err.main, {"rollback"}))
            /\ UNCHANGED store
       ELSE /\ store' = StoreDelete(store, op.secretKey)
            /\ Return(err.main)
            /\ UNCHANGED failed
    /\ UNCHANGED <<repo, op, Locals, pre, repo0, calls>>

\* range loop: previousSecretRef == secretKey, continue
SetAuthSkipSame ==
    /\ pc = "sa_loop"
    /\ idx <= Len(secretRefs)
    /\ secretRefs[idx] = op.secretKey
    /\ idx' = idx + 1
    /\ UNCHANGED <<repo, store, pc, op, account, originalAccount, secretRefs,
                   restoreAccount, err, ret, pre, failed, repo0, calls>>

\* range loop: s.store.Delete(ctx, previousSecretRef)
SetAuthDeletePrevious(outcome) ==
    /\ pc = "sa_loop"
    /\ idx <= Len(secretRefs)
    /\ secretRefs[idx] # op.secretKey
    /\ IF outcome = "fail"
       THEN /\ Fail("deletePrevious")
            /\ err' = [err EXCEPT !.main = {"deletePrevious"}]
            /\ restoreAccount' = SetAuthRestore(originalAccount,
                                    remainingSecretRefs(secretRefs, secretRefs[idx]))
            /\ pc' = "sa_restore"
            /\ UNCHANGED <<store, idx>>
       ELSE /\ store' = StoreDelete(store, secretRefs[idx])
            /\ idx' = idx + 1
            /\ UNCHANGED <<pc, restoreAccount, err, failed>>
    /\ UNCHANGED <<repo, op, account, originalAccount, secretRefs, ret, pre,
                   repo0, calls>>

\* range loop over: return nil
SetAuthDone ==
    /\ pc = "sa_loop"
    /\ idx > Len(secretRefs)
    /\ Return(NoErr)
    /\ UNCHANGED <<repo, store, op, Locals, pre, failed, repo0, calls>>

\* mutant of SetAuthRestoreSave: the restored record is not saved
SetAuthRestoreSaveSkipped(outcome) ==
    /\ pc = "sa_restore"
    /\ pc' = "sa_delnew"
    /\ UNCHANGED <<repo, store, op, Locals, ret, pre, failed, repo0, calls>>

\* delete of a previous reference failed: s.repo.Save(ctx, restoreAccount)
SetAuthRestoreSave(outcome) ==
    /\ pc = "sa_restore"
    /\ IF outcome = "fail"
       THEN /\ Fail("restoreSave")
            /\ err' = [err EXCEPT !.rollback = Join(err.rollback, {"restoreSave"})]
            /\ UNCHANGED repo
       ELSE /\ repo' = toSchema(restoreAccount)
            /\ UNCHANGED <<err, failed>>
    /\ pc' = "sa_delnew"
    /\ UNCHANGED <<store, op, account, originalAccount, secretRefs, idx,
                   restoreAccount, ret, pre, repo0, calls>>

\* mutant of SetAuthDeleteNew: the new secret is not deleted
SetAuthDeleteNewSkipped(outcome) ==
    /\ pc = "sa_delnew"
    /\ Return(IF err.rollback # NoErr
              THEN DeleteRollbackError(err.main, err.rollback)
              ELSE err.main)
    /\ UNCHANGED <<repo, store, op, Locals, pre, failed, repo0, calls>>

\* ... then s.store.Delete(ctx, secretKey), then return
SetAuthDeleteNew(outcome) ==
    /\ pc = "sa_delnew"
    /\ LET rollbackErr == IF outcome = "fail"
                          THEN Join(err.rollback, {"deleteNew"})
                          ELSE err.rollback
       IN Return(IF rollbackErr # NoErr
                 THEN DeleteRollbackError(err.main, rollbackErr)
                 ELSE err.main)
    /\ IF outcome = "fail"
       THEN Fail("deleteNew") /\ UNCHANGED store
       ELSE store' = StoreDelete(store, op.secretKey) /\ UNCHANGED failed
    /\ UNCHANGED <<repo, op, Locals, pre, repo0, calls>>

\* ---- Service.RemoveAuth ----
RemoveAuthCall ==
    /\ pc = "idle"
    /\ calls < MaxCalls
    /\ calls' = calls + 1
    /\ op' = [name |-> "RemoveAuth"]
    /\ pc' = "ra_get"
    /\ account' = NoAccount
    /\ originalAccount' = NoAccount
    /\ secretRefs' = <<>>
    /\ idx' = 0
    /\ restoreAccount' = NoAccount
    /\ err' = NoErrs
    /\ pre' = [repo |-> repo, store |-> store]
    /\ failed' = {}
    /\ ret' = [status |-> "none", errs |-> NoErr]
    /\ UNCHANGED <<repo, store, repo0>>

\* account, err := s.repo.GetByID(ctx, id); ErrAccountNotFound is returned too
RemoveAuthGetByID(outcome) ==
    /\ pc = "ra_get"
    /\ IF outcome = "fail" \/ ~repo.exists
       THEN /\ Fail("get")
            /\ Return({"get"})
            /\ UNCHANGED <<account, originalAccount, secretRefs>>
       ELSE LET a == fromSchema(repo)
            IN /\ originalAccount' = a
               /\ secretRefs' = uniqueSecretRefs(<<a.metaRef, a.authRef>>)
               /\ account' = WithoutAuth(a)
               /\ pc' = "ra_save"
               /\ UNCHANGED <<ret, failed>>
    /\ UNCHANGED <<repo, store, op, idx, restoreAccount, err, pre, repo0, calls>>

\* s.repo.Save(ctx, account); if len(secretRefs) == 0 { return nil }
RemoveAuthSave(outcome) ==
    /\ pc = "ra_save"
    /\ IF outcome = "fail"
       THEN /\ Fail("save")
            /\ Return({"save"})
            /\ UNCHANGED <<repo, idx>>
       ELSE /\ repo' = toSchema(account)
            /\ UNCHANGED failed
            /\ IF Len(secretRefs) = 0
               THEN Return(NoErr) /\ UNCHANGED idx
               ELSE pc' = "ra_loop" /\ idx' = 1 /\ UNCHANGED ret
    /\ UNCHANGED <<store, op, account, originalAccount, secretRefs,
                   restoreAccount, err, pre, repo0, calls>>

\* range loop: s.store.Delete(ctx, secretRef)
RemoveAuthDelete(outcome) ==
    /\ pc = "ra_loop"
    /\ idx <= Len(secretRefs)
    /\ IF outcome = "fail"
       THEN /\ Fail("delete")
            /\ err' = [err EXCEPT !.main = {"delete"}]
            /\ restoreAccount' = RemoveAuthRestore(account, originalAccount,
                                    remainingSecretRefs(secretRefs, secretRefs[idx]))
            /\ pc' = "ra_restore"
            /\ UNCHANGED <<store, idx>>
       ELSE /\ store' = StoreDelete(store, secretRefs[idx])
            /\ idx' = idx + 1
            /\ UNCHANGED <<pc, restoreAccount, err, failed>>
    /\ UNCHANGED <<repo, op, account, originalAccount, secretRefs, ret, pre,
                   repo0, calls>>

\* range loop over: return nil
RemoveAuthDone ==
    /\ pc = "ra_loop"
    /\ idx > Len(secretRefs)
    /\ Return(NoErr)
    /\ UNCHANGED <<repo, store, op, Locals, pre, failed, repo0, calls>>

\* delete failed: s.repo.Save(ctx, restoreAccount), then return
RemoveAuthRestoreSave(outcome) ==
    /\ pc = "ra_restore"
    /\ IF outcome = "fail"
       THEN /\ Fail("restoreSave")
            /\ Return(RemoveRestoreError(err.main, {"restoreSave"}))
            /\ UNCHANGED repo
       ELSE /\ repo' = toSchema(restoreAccount)
            /\ Return(err.main)
            /\ UNCHANGED failed
    /\ UNCHANGED <<store, op, Locals, pre, repo0, calls>>

\* a step of the credential service leaves the other components alone
CredOnly == UNCHANGED <<refreshVars, batchVars, pickVars, laterVars>>

Next ==
    \/ CredOnly /\ \E m \in Methods, k \in Keys, v \in Values : SetAuthCall(m, k, v)
    \/ CredOnly /\ \E o \in Outcomes : SetAuthGetByID(o)
    \/ CredOnly /\ \E o \in Outcomes : SetAuthPut(o)
    \/ CredOnly /\ \E o \in Outcomes : SetAuthSave(o)
    \/ CredOnly /\ \E o \in Outcomes : SetAuthRollback(o)
    \/ CredOnly /\ SetAuthSkipSame
    \/ CredOnly /\ \E o \in Outcomes : SetAuthDeletePrevious(o)
    \/ CredOnly /\ SetAuthDone
    \/ CredOnly /\ \E o \in Outcomes : SetAuthRestoreSave(o)
    \/ CredOnly /\ \E o \in Outcomes : SetAuthDeleteNew(o)
    \/ CredOnly /\ RemoveAuthCall
    \/ CredOnly /\ \E o \in Outcomes : RemoveAuthGetByID(o)
    \/ CredOnly /\ \E o \in Outcomes : RemoveAuthSave(o)
    \/ CredOnly /\ \E o \in Outcomes : RemoveAuthDelete(o)
    \/ CredOnly /\ RemoveAuthDone
    \/ CredOnly /\ \E o \in Outcomes : RemoveAuthRestoreSave(o)

Spec == Init /\ [][Next]_vars

\* ---- what the claims speak of ----
Idle == pc = "idle"
Returned(name) == Idle /\ op.name = name /\ ret.status # "none"
ReturnedOK(name) == Returned(name) /\ ret.status = "ok"
ReturnedError(name) == Returned(name) /\ ret.status = "error"

TypeOK ==
    /\ repo \in {NoAccount} \cup
         [exists : {TRUE}, name : {"n", "Account id"}, method : Methods \cup {NoMethod},
          metaRef : Keys \cup {NoRef}, authRef : Keys \cup {NoRef}]
    /\ DOMAIN store \subseteq Keys
    /\ \A k \in DOMAIN store : store[k] \in Values \cup {OldValue}
    /\ calls \in 0..MaxCalls

\* the steps of a call that compensate for an earlier failure
CompensationSteps == {"rollback", "restoreSave", "deleteNew"}

\* SetAuth has written the new secret and has not returned yet
WritingNewKey == pc \in {"sa_save", "sa_rollback", "sa_loop", "sa_restore", "sa_delnew"}

\* every key that counts as a secret reference of the account: those the
\* persisted record names and the one SetAuth is writing for it
RefsInPlay == Refs(repo) \cup (IF WritingNewKey THEN {op.secretKey} ELSE {})

\* the persisted record points at no missing secret
NoDanglingRef == \A k \in Refs(repo) : Has(store, k)

\* ---- C1 ----
\* C1: after a SetAuth that returns success the persisted record has
\* Auth.SecretRef = Metadata.SecretRef = newKey, the store holds newValue
\* under newKey, and the store holds no key the account referenced before the
\* call other than newKey.
C1_SetAuthSuccess ==
    ReturnedOK("SetAuth") =>
        /\ repo.exists
        /\ repo.authRef = op.secretKey
        /\ repo.metaRef = op.secretKey
        /\ Has(store, op.secretKey)
        /\ store[op.secretKey] = op.secretValue
        /\ \A k \in Refs(pre.repo) \ {op.secretKey} : ~Has(store, k)

\* a successful rotation away from two differing references, both stored
C1_Witness ==
    /\ ReturnedOK("SetAuth")
    /\ Cardinality(Refs(pre.repo) \ {op.secretKey}) = 2
    /\ Refs(pre.repo) \subseteq DOMAIN pre.store

\* ---- C2 ----
\* C2 (as claimed): after a SetAuth call in which deleting a previous
\* reference failed, the persisted record references at least one secret, and
\* every secret it references still exists in the store.
C2_Claim ==
    (Returned("SetAuth") /\ "deletePrevious" \in failed) =>
        /\ Refs(repo) # {}
        /\ NoDanglingRef

\* ---- C3 ----
\* C3 (as claimed): whenever SetAuth returns an error, every non-empty
\* reference of the persisted record names a key present in the store, also
\* when the new key equals a reference the account already held.
C3_Claim == ReturnedError("SetAuth") => NoDanglingRef

C6_Claim ==
    ReturnedError("SetAuth") =>
        (Has(store, op.secretKey) => op.secretKey \in Refs(repo))

\* C6 (amended): whenever SetAuth returns an error after it wrote the new
\* secret, the store holds a value under the new key only if the persisted
\* record references that key or the compensating delete of the new key
\* failed as well.
C6_NewSecretNotOrphaned ==
    (ReturnedError("SetAuth") /\ failed \cap {"get", "put"} = {}) =>
        (Has(store, op.secretKey) =>
            \/ op.secretKey \in Refs(repo)
            \/ failed \cap {"rollback", "deleteNew"} # {})

\* a previous reference could not be deleted, the record was restored and the
\* new secret, written by this call, is gone again
C6_Witness ==
    /\ ReturnedError("SetAuth")
    /\ failed = {"deletePrevious"}
    /\ ~Has(pre.store, op.secretKey)
    /\ ~Has(store, op.secretKey)
    /\ op.secretKey \notin Refs(repo)

\* ---- C7 ----
\* C7: whenever a compensation step of SetAuth or RemoveAuth fails, the
\* returned error matches the original failure and every compensation failure.
C7_ErrorsJoined ==
    (Idle /\ ret.status # "none" /\ failed \cap CompensationSteps # {}) =>
        /\ ret.status = "error"
        /\ failed \subseteq ret.errs

\* SetAuth: a previous delete failed, then both the restoring save and the
\* delete of the new secret failed
C7_Witness ==
    /\ Returned("SetAuth")
    /\ failed = {"deletePrevious", "restoreSave", "deleteNew"}

\* ---- C8 ----
\* C8 (as claimed): at every point during and after any call at most two
\* distinct non-empty secret references exist for the account.
C8_Claim == Cardinality(RefsInPlay) <= 2

\* C8 (amended): when the record's two references agreed (or were empty) at
\* start, at most two distinct non-empty secret references exist for the
\* account at every point during and after any SetAuth or RemoveAuth call.
C8_AtMostTwoRefs ==
    Cardinality(Refs(repo0)) <= 1 => Cardinality(RefsInPlay) <= 2

\* a second rotation under way: the new secret is written, the record still
\* names the old one
C8_Witness ==
    /\ Cardinality(Refs(repo0)) = 1
    /\ pc = "sa_save"
    /\ calls = 2
    /\ Cardinality(RefsInPlay) = 2

\* ---- C9 ----
\* C9 (as claimed): after any RemoveAuth call returns, with success or with
\* an error, each non-empty reference of the persisted record names a key
\* still present in the store.
C9_Claim == Returned("RemoveAuth") => NoDanglingRef

\* supports C9: RemoveAuth itself never makes the record point at a missing
\* secret; when every reference was stored before the call, every reference
\* is stored after it.
C9_RemoveAuthAddsNoDanglingRef ==
    (Returned("RemoveAuth") /\ Refs(pre.repo) \subseteq DOMAIN pre.store) =>
        NoDanglingRef

\* ---- C10 ----
\* the references of the running RemoveAuth from the failing one onward
RemoveAuthUndeleted == {secretRefs[j] : j \in idx..Len(secretRefs)}

\* C10: when a delete fails in RemoveAuth's loop, the record handed to the
\* restoring save references exactly the references from the failing one
\* onward, none of which this call deleted, with the original auth method if
\* any reference survives and none otherwise; the record is persisted as
\* handed over when that save succeeds; and the returned error matches the
\* delete error.
C10_RemoveAuthPartialRestore ==
    (Returned("RemoveAuth") /\ "delete" \in failed) =>
        /\ "delete" \in ret.errs
        /\ Refs(restoreAccount) = RemoveAuthUndeleted
        /\ \A k \in Refs(restoreAccount) : Has(pre.store, k) => Has(store, k)
        /\ \A j \in 1..(idx - 1) : ~Has(store, secretRefs[j])
        /\ restoreAccount.method =
              IF RemoveAuthUndeleted # {} THEN originalAccount.method ELSE NoMethod
        /\ restoreAccount.name = originalAccount.name
        /\ ("restoreSave" \notin failed => repo = toSchema(restoreAccount))
        /\ ("restoreSave" \in failed => Refs(repo) = {})

\* the first of two references was deleted, the second could not be
C10_Witness ==
    /\ Returned("RemoveAuth")
    /\ failed = {"delete"}
    /\ idx = 2
    /\ Has(pre.store, secretRefs[1])
    /\ Refs(repo) = {secretRefs[2]}

(***************************************************************************)
(* Token refresh.  Each fetch worker runs fetchAndPersistLimitsUncached    *)
(* for one account; the workers share the secret store, the clock and the  *)
(* mutexes of refreshLocks.  authadapter.RefreshTokens is the token        *)
(* endpoint as the caller sees it: it answers with a token response, with  *)
(* ErrRefreshTokenInvalid (invalid_grant) or with another error, and every *)
(* access token it issues is new.  Only ensureFreshTokens writes the       *)
(* secret while fetches run.  A time unit is a minute.  Token strings      *)
(* carry no surrounding white space, so strings.TrimSpace leaves them as   *)
(* they are; TokenType, which no decision reads, is left out.              *)
(***************************************************************************)
NumWorkers == 2
MaxTime == 1
\* the number of refreshes the token endpoint grants in a run
MaxIssued == 2

Workers == 1..NumWorkers
RefreshRefs == {<<"a">>, <<"b">>}
EmptyString == <<>>
proactiveRefreshSkew == 2
\* the lifetime the token endpoint reports, when it reports one
ServerExpiresIn == 5
ErrRefreshTokenInvalid == "ErrRefreshTokenInvalid"

\* oauthTokens
Tokens(access, refresh, id, expiresIn, expiresAt) ==
    [AccessToken |-> access, RefreshToken |-> refresh, IDToken |-> id,
     ExpiresIn |-> expiresIn, ExpiresAt |-> expiresAt]
NoTokens == Tokens(EmptyString, EmptyString, EmptyString, 0, 0)

\* json.Marshal of oauthTokens: a JSON object is a function from the keys it
\* holds; every key but access_token is omitempty
encodeOAuthTokens(t) ==
    LET all == [access_token |-> t.AccessToken, refresh_token |-> t.RefreshToken,
                id_token |-> t.IDToken, expires_in |-> t.ExpiresIn,
                expires_at |-> t.ExpiresAt]
        kept == {"access_token"}
                \cup {k \in {"refresh_token", "id_token"} : all[k] # EmptyString}
                \cup {k \in {"expires_in", "expires_at"} : all[k] # 0}
    IN  [k \in kept |-> all[k]]

\* json.Unmarshal into oauthTokens: a key the object lacks leaves the zero value
jsonField(v, k, zero) == IF k \in DOMAIN v THEN v[k] ELSE zero
decodeOAuthTokens(v) ==
    LET t == Tokens(jsonField(v, "access_token", EmptyString),
                    jsonField(v, "refresh_token", EmptyString),
                    jsonField(v, "id_token", EmptyString),
                    jsonField(v, "expires_in", 0),
                    jsonField(v, "expires_at", 0))
    IN  IF t.AccessToken = EmptyString
        THEN [tokens |-> NoTokens, err |-> {"oauth tokens missing access_token"}]
        ELSE [tokens |-> t, err |-> NoErr]

\* withCalculatedExpiry(tokens, now)
withCalculatedExpiry(tokens, at) ==
    IF tokens.ExpiresIn > 0
    THEN [tokens EXCEPT !.ExpiresAt = at + tokens.ExpiresIn]
    ELSE tokens

\* tokenExpiringSoon(tokens, now, skew)
tokenExpiringSoon(tokens, at, skew) ==
    IF tokens.ExpiresAt <= 0 THEN FALSE ELSE ~(tokens.ExpiresAt > at + skew)

\* the answers of the token endpoint to a refresh: all it may send, or only
\* what it must, with or without a lifetime
ResponseShapes == {"full", "bare", "no lifetime"}
RefreshResponse(shape, n) ==
    Tokens(<<n>>,
           IF shape = "bare" THEN EmptyString ELSE <<n>>,
           IF shape = "bare" THEN EmptyString ELSE <<n>>,
           IF shape = "no lifetime" THEN 0 ELSE ServerExpiresIn,
           0)

\* mutant of updatedTokens: nothing is carried over from the stored record
updatedTokensNoCarry(refreshed, storedTokens, at) == withCalculatedExpiry(refreshed, at)
\* ensureFreshTokens, the record built from the refresh response
updatedTokens(refreshed, storedTokens, at) ==
    LET updated == Tokens(refreshed.AccessToken,
                          IF refreshed.RefreshToken = EmptyString
                          THEN storedTokens.RefreshToken ELSE refreshed.RefreshToken,
                          IF refreshed.IDToken = EmptyString
                          THEN storedTokens.IDToken ELSE refreshed.IDToken,
                          refreshed.ExpiresIn, 0)
    IN  withCalculatedExpiry(updated, at)

\* lockForSecretRef: refreshLocks.LoadOrStore keeps one mutex per secret
\* reference; holder 0 is an unlocked mutex
LoadOrStore(locks, secretRef) ==
    IF secretRef \in DOMAIN locks THEN locks
    ELSE [r \in DOMAIN locks \cup {secretRef} |-> IF r = secretRef THEN 0 ELSE locks[r]]
lockForSecretRef(secretRef) == secretRef

\* errors.Is(err, authadapter.ErrRefreshTokenInvalid)
IsRefreshTokenInvalid(e) == ErrRefreshTokenInvalid \in e
sessionExpired == "session expired, please re-login"
\* every other error fetchAndPersistLimitsUncached returns
otherError == "error"

\* ---- a fetch worker ----
NoReturn == [site |-> "none"]
\* the worker of an account whose auth secret reference is secretRef, before
\* fetchAndPersistLimitsUncached has read the secret; er is what the call of
\* ensureFreshTokens that has just returned read, did and returned
Worker(secretRef) ==
    [pc |-> "f_load", ref |-> secretRef, tokens |-> NoTokens,
     site |-> "none", force |-> FALSE, stale |-> EmptyString,
     raw |-> <<>>, storedTokens |-> NoTokens, refreshed |-> NoTokens,
     updated |-> NoTokens, at |-> 0, called |-> FALSE, late |-> FALSE,
     er |-> NoReturn, ret |-> "none", forced |-> 0]

\* what the secret store may hold under a reference when the fetches start:
\* a token record with or without refresh token, expiring soon or of unknown
\* expiry, or an object without access_token.  The references are alike, so
\* the first worker's is the first, and all hold the same secret at the start.
InitSecrets ==
    {encodeOAuthTokens(Tokens(<<0>>, r, <<0>>, 0, e)) :
        r \in {EmptyString, <<0>>}, e \in {0, 1}} \cup {<<>>}

RefreshInit ==
    /\ \E v \in InitSecrets : tokenStore = [r \in RefreshRefs |-> v]
    /\ refreshLocks = <<>>
    /\ now = 0
    /\ issued = 0
    /\ fetch \in [Workers -> {Worker(r) : r \in RefreshRefs}]
    /\ fetch[1].ref = <<"a">>
    /\ persisted = {}
    /\ CredOff /\ BatchOff /\ PickOff /\ LaterOff

\* fetchAndPersistLimitsUncached returns r; its locals are gone
FetchReturn(f, r) ==
    [f EXCEPT !.pc = "done", !.ret = r, !.tokens = NoTokens, !.stale = EmptyString,
              !.site = "none", !.er = NoReturn, !.forced = 0]

\* the call ensureFreshTokens(ctx, app, account, tokens, force) made at `site`;
\* forced counts the calls with force=true of the fetch in progress
EnsureCall(f, site, force) ==
    [f EXCEPT !.pc = "e_lock", !.site = site, !.force = force,
              !.stale = f.tokens.AccessToken,
              !.forced = f.forced + (IF force THEN 1 ELSE 0)]

\* ensureFreshTokens returns (toks, e); `after` is the secret under the
\* reference as the call leaves it
EnsureReturn(f, toks, e, after) ==
    [f EXCEPT !.pc = "e_ret",
              !.er = [site |-> f.site, force |-> f.force, stale |-> f.stale,
                      tokens |-> toks, err |-> e, called |-> f.called,
                      refreshed |-> f.refreshed, at |-> f.at,
                      stored |-> f.storedTokens, before |-> f.raw,
                      after |-> after, late |-> f.late],
              !.raw = <<>>, !.storedTokens = NoTokens, !.refreshed = NoTokens,
              !.updated = NoTokens, !.at = 0, !.called = FALSE, !.late = FALSE,
              !.force = FALSE]

\* mutant of Unlock: the return leaves the mutex held
UnlockForgotten(locks, secretRef) == locks
\* defer lock.Unlock()
Unlock(locks, secretRef) == [locks EXCEPT ![lockForSecretRef(secretRef)] = 0]

FetchUnchanged ==
    /\ UNCHANGED <<tokenStore, refreshLocks, now, issued, persisted>>
    /\ UNCHANGED <<credVars, batchVars, pickVars, laterVars>>

\* secretStore.Get, decodeOAuthTokens, then the first ensureFreshTokens
FetchLoad(w, outcome) ==
    LET f == fetch[w]
        decoded == decodeOAuthTokens(tokenStore[f.ref])
    IN  /\ f.pc = "f_load"
        /\ fetch' = [fetch EXCEPT ![w] =
                IF outcome = "fail" THEN FetchReturn(f, otherError)
                ELSE IF decoded.err # NoErr THEN FetchReturn(f, otherError)
                ELSE EnsureCall([f EXCEPT !.tokens = decoded.tokens], "proactive", FALSE)]
        /\ FetchUnchanged

\* mutant of EnsureLock: the mutex is taken whoever holds it
EnsureLockNoWait(w) ==
    LET f == fetch[w]
        locks == LoadOrStore(refreshLocks, f.ref)
    IN  /\ f.pc = "e_lock"
        /\ refreshLocks' = [locks EXCEPT ![lockForSecretRef(f.ref)] = w]
        /\ fetch' = [fetch EXCEPT ![w] = [f EXCEPT !.pc = "e_get"]]
        /\ UNCHANGED <<tokenStore, now, issued, persisted>>
        /\ UNCHANGED <<credVars, batchVars, pickVars, laterVars>>
\* lock := lockForSecretRef(secretRef); lock.Lock()
EnsureLock(w) ==
    LET f == fetch[w]
        locks == LoadOrStore(refreshLocks, f.ref)
    IN  /\ f.pc = "e_lock"
        /\ locks[lockForSecretRef(f.ref)] = 0
        /\ refreshLocks' = [locks EXCEPT ![lockForSecretRef(f.ref)] = w]
        /\ fetch' = [fetch EXCEPT ![w] =
                [f EXCEPT !.pc = "e_get",
                          !.late = \E p \in persisted : p.ref = f.ref /\ p.replaced = f.stale]]
        /\ UNCHANGED <<tokenStore, now, issued, persisted>>
        /\ UNCHANGED <<credVars, batchVars, pickVars, laterVars>>

\* mutant of storedIsFresh: a forced call never settles for the stored record
storedIsFreshForcedAlwaysRefreshes(force, staleAccessToken, storedTokens, at) ==
    ~force /\ ~tokenExpiringSoon(storedTokens, at, proactiveRefreshSkew)
\* ensureFreshTokens, the test under which it returns the reloaded record
\* without a refresh
storedIsFresh(force, staleAccessToken, storedTokens, at) ==
    IF force
    THEN /\ staleAccessToken # EmptyString
         /\ storedTokens.AccessToken # EmptyString
         /\ storedTokens.AccessToken # staleAccessToken
    ELSE ~tokenExpiringSoon(storedTokens, at, proactiveRefreshSkew)

\* storedValue, err := app.secretStore.Get(...) up to the test for a missing
\* refresh token; every return runs the deferred lock.Unlock().  raw is the
\* secret as the call finds it, also when Get fails to deliver it.
EnsureGet(w, outcome) ==
    LET f == fetch[w]
        value == tokenStore[f.ref]
        decoded == decodeOAuthTokens(value)
        g == [f EXCEPT !.raw = value, !.storedTokens = decoded.tokens]
        goesOn == /\ outcome = "ok"
                  /\ decoded.err = NoErr
                  /\ ~storedIsFresh(f.force, f.stale, decoded.tokens, now)
                  /\ decoded.tokens.RefreshToken # EmptyString
    IN  /\ f.pc = "e_get"
        /\ UNCHANGED <<tokenStore, now, issued, persisted>>
        /\ refreshLocks' = IF goesOn THEN refreshLocks ELSE Unlock(refreshLocks, f.ref)
        /\ fetch' = [fetch EXCEPT ![w] =
                IF outcome = "fail"
                THEN EnsureReturn([f EXCEPT !.raw = value], f.tokens,
                                  {"load auth secret for refresh"}, value)
                ELSE IF decoded.err # NoErr
                THEN EnsureReturn([f EXCEPT !.raw = value], f.tokens, decoded.err, value)
                ELSE IF storedIsFresh(f.force, f.stale, decoded.tokens, now)
                THEN EnsureReturn(g, decoded.tokens, NoErr, value)
                ELSE IF decoded.tokens.RefreshToken = EmptyString
                THEN EnsureReturn(g, decoded.tokens,
                                  {ErrRefreshTokenInvalid, "refresh_token missing"}, value)
                ELSE [g EXCEPT !.pc = "e_refresh"]]
        /\ UNCHANGED <<credVars, batchVars, pickVars, laterVars>>

RefreshOutcomes == {"ok", "invalid_grant", "fail"}

\* mutant of EnsureRefresh: invalid_grant wipes the stored secret
EnsureRefreshForgetsSecret(w, outcome, shape, took) ==
    LET f == fetch[w]
    IN  /\ f.pc = "e_refresh"
        /\ outcome = "invalid_grant" /\ shape = "full" /\ took = 0
        /\ tokenStore' = [tokenStore EXCEPT ![f.ref] = <<>>]
        /\ refreshLocks' = Unlock(refreshLocks, f.ref)
        /\ fetch' = [fetch EXCEPT ![w] =
                EnsureReturn([f EXCEPT !.called = TRUE], f.storedTokens,
                             {ErrRefreshTokenInvalid}, <<>>)]
        /\ UNCHANGED <<now, issued, persisted>>
        /\ UNCHANGED <<credVars, batchVars, pickVars, laterVars>>
\* refreshed, err := authadapter.RefreshTokens(...) up to
\* updated = withCalculatedExpiry(updated, app.now()); the request takes
\* `took` minutes
EnsureRefresh(w, outcome, shape, took) ==
    LET f == fetch[w]
        g == [f EXCEPT !.called = TRUE]
        refreshed == RefreshResponse(shape, issued + 1)
    IN  /\ f.pc = "e_refresh"
        /\ IF outcome = "ok" THEN issued < MaxIssued ELSE shape = "full"
        /\ now + took <= MaxTime
        /\ now' = now + took
        /\ UNCHANGED <<tokenStore, persisted>>
        /\ IF outcome = "ok"
           THEN /\ issued' = issued + 1
                /\ fetch' = [fetch EXCEPT ![w] =
                        [g EXCEPT !.pc = "e_put", !.refreshed = refreshed, !.at = now',
                                  !.updated = updatedTokens(refreshed, f.storedTokens, now')]]
                /\ UNCHANGED refreshLocks
           ELSE /\ UNCHANGED issued
                /\ refreshLocks' = Unlock(refreshLocks, f.ref)
                /\ fetch' = [fetch EXCEPT ![w] =
                        EnsureReturn(g, f.storedTokens,
                                     IF outcome = "invalid_grant"
                                     THEN {ErrRefreshTokenInvalid}
                                     ELSE {"token endpoint"},
                                     tokenStore[f.ref])]
        /\ UNCHANGED <<credVars, batchVars, pickVars, laterVars>>

\* encodeOAuthTokens(updated) (json.Marshal of this struct cannot fail), then
\* app.secretStore.Put(ctx, secretRef, encoded) and the return
EnsurePut(w, outcome) ==
    LET f == fetch[w]
        encoded == encodeOAuthTokens(f.updated)
    IN  /\ f.pc = "e_put"
        /\ refreshLocks' = Unlock(refreshLocks, f.ref)
        /\ UNCHANGED <<now, issued>>
        /\ IF outcome = "fail"
           THEN /\ fetch' = [fetch EXCEPT ![w] =
                        EnsureReturn(f, f.storedTokens,
                                     {"persist refreshed oauth tokens"}, tokenStore[f.ref])]
                /\ UNCHANGED <<tokenStore, persisted>>
           ELSE /\ tokenStore' = [tokenStore EXCEPT ![f.ref] = encoded]
                /\ persisted' = persisted \cup
                        {[ref |-> f.ref, stale |-> f.stale, force |-> f.force,
                          replaced |-> f.storedTokens.AccessToken, worker |-> w]}
                /\ fetch' = [fetch EXCEPT ![w] = EnsureReturn(f, f.updated, NoErr, encoded)]
        /\ UNCHANGED <<credVars, batchVars, pickVars, laterVars>>

\* tokens, err = ensureFreshTokens(ctx, app, account, tokens, false) has
\* returned: its error ends the fetch
FetchAfterProactive(w) ==
    LET f == fetch[w]
    IN  /\ f.pc = "e_ret" /\ f.site = "proactive"
        /\ fetch' = [fetch EXCEPT ![w] =
                IF f.er.err # NoErr
                THEN FetchReturn(f, IF IsRefreshTokenInvalid(f.er.err) THEN sessionExpired
                                    ELSE otherError)
                ELSE [f EXCEPT !.pc = "f_usage", !.tokens = f.er.tokens, !.er = NoReturn]]
        /\ FetchUnchanged

\* the forced ensureFreshTokens after the usage endpoint's 401/403 has
\* returned: its error, or the token it was given back, ends the fetch
FetchAfterUsageRefresh(w) ==
    LET f == fetch[w]
    IN  /\ f.pc = "e_ret" /\ f.site = "usage"
        /\ fetch' = [fetch EXCEPT ![w] =
                IF f.er.err # NoErr
                THEN FetchReturn(f, IF IsRefreshTokenInvalid(f.er.err) THEN sessionExpired
                                    ELSE otherError)
                ELSE IF f.er.tokens.AccessToken = f.stale
                THEN FetchReturn(f, sessionExpired)
                ELSE [f EXCEPT !.pc = "f_retry", !.tokens = f.er.tokens, !.er = NoReturn]]
        /\ FetchUnchanged

\* the forced ensureFreshTokens after the subscription endpoint's 401/403 has
\* returned: without a new token subErr stays and the fetch returns nil
FetchAfterSubscriptionRefresh(w) ==
    LET f == fetch[w]
    IN  /\ f.pc = "e_ret" /\ f.site = "subscription"
        /\ fetch' = [fetch EXCEPT ![w] =
                IF f.er.err = NoErr /\ f.er.tokens.AccessToken # f.stale
                THEN [f EXCEPT !.pc = "f_subretry", !.tokens = f.er.tokens, !.er = NoReturn]
                ELSE FetchReturn(f, "nil")]
        /\ FetchUnchanged

\* what a request to the usage or the subscription endpoint ends in: a payload
\* that is then saved ("ok") or fails to be saved, 401/403
\* (errUsageSessionExpired), or another failure
EndpointOutcomes == {"ok", "save fails", "expired", "fail"}

\* payload, err := fetchUsagePayload(...): on errUsageSessionExpired the forced
\* ensureFreshTokens; on a payload the saves of limits, name and plan type
FetchUsage(w, outcome) ==
    LET f == fetch[w]
    IN  /\ f.pc = "f_usage"
        /\ fetch' = [fetch EXCEPT ![w] =
                CASE outcome = "ok" -> [f EXCEPT !.pc = "f_sub"]
                  [] outcome = "save fails" -> FetchReturn(f, otherError)
                  [] outcome = "expired" -> EnsureCall(f, "usage", TRUE)
                  [] outcome = "fail" -> FetchReturn(f, otherError)]
        /\ FetchUnchanged

\* the second fetchUsagePayload, with the refreshed token, and the saves
FetchUsageRetry(w, outcome) ==
    LET f == fetch[w]
    IN  /\ f.pc = "f_retry"
        /\ fetch' = [fetch EXCEPT ![w] =
                CASE outcome = "ok" -> [f EXCEPT !.pc = "f_sub"]
                  [] outcome = "save fails" -> FetchReturn(f, otherError)
                  [] outcome = "expired" -> FetchReturn(f, sessionExpired)
                  [] outcome = "fail" -> FetchReturn(f, otherError)]
        /\ FetchUnchanged

\* subPayload, subErr := fetchSubscriptionPayload(...): on
\* errUsageSessionExpired the forced ensureFreshTokens; on a payload
\* SetSubscription; another failure is dropped and the fetch returns nil
FetchSubscription(w, outcome) ==
    LET f == fetch[w]
    IN  /\ f.pc = "f_sub"
        /\ fetch' = [fetch EXCEPT ![w] =
                CASE outcome = "ok" -> FetchReturn(f, "nil")
                  [] outcome = "save fails" -> FetchReturn(f, otherError)
                  [] outcome = "expired" -> EnsureCall(f, "subscription", TRUE)
                  [] outcome = "fail" -> FetchReturn(f, "nil")]
        /\ FetchUnchanged

\* the second fetchSubscriptionPayload, with the refreshed token
FetchSubscriptionRetry(w, outcome) ==
    LET f == fetch[w]
    IN  /\ f.pc = "f_subretry"
        /\ fetch' = [fetch EXCEPT ![w] =
                FetchReturn(f, IF outcome = "save fails" THEN otherError ELSE "nil")]
        /\ FetchUnchanged

RefreshNext ==
    \/ \E w \in Workers, o \in Outcomes : FetchLoad(w, o)
    \/ \E w \in Workers : EnsureLock(w)
    \/ \E w \in Workers, o \in Outcomes : EnsureGet(w, o)
    \/ \E w \in Workers, o \in RefreshOutcomes, sh \in ResponseShapes, took \in 0..MaxTime :
            EnsureRefresh(w, o, sh, took)
    \/ \E w \in Workers, o \in Outcomes : EnsurePut(w, o)
    \/ \E w \in Workers : FetchAfterProactive(w)
    \/ \E w \in Workers : FetchAfterUsageRefresh(w)
    \/ \E w \in Workers : FetchAfterSubscriptionRefresh(w)
    \/ \E w \in Workers, o \in EndpointOutcomes : FetchUsage(w, o)
    \/ \E w \in Workers, o \in EndpointOutcomes : FetchUsageRetry(w, o)
    \/ \E w \in Workers, o \in EndpointOutcomes : FetchSubscription(w, o)
    \/ \E w \in Workers, o \in EndpointOutcomes : FetchSubscriptionRetry(w, o)

RefreshSpec == RefreshInit /\ [][RefreshNext]_vars

\* ---- what the claims about the token refresh speak of ----
\* the worker is between the reload of the stored token and the return that
\* follows the refresh call or the persisting of its result
InRefreshSection(w) == fetch[w].pc \in {"e_get", "e_refresh", "e_put"}
\* ensureFreshTokens has just returned to worker w
EnsureReturned(w) == fetch[w].pc = "e_ret"

\* C11: for each secret reference at most one caller at a time is in the
\* section of ensureFreshTokens that reloads the stored token, calls the
\* refresh and persists the result.
C11_OneRefreshInFlight ==
    \A w1, w2 \in Workers :
        (w1 # w2 /\ InRefreshSection(w1) /\ InRefreshSection(w2))
            => fetch[w1].ref # fetch[w2].ref

\* two workers of the same secret reference, one at the refresh call, the
\* other waiting for the lock
C11_Witness ==
    \E w1, w2 \in Workers :
        /\ w1 # w2
        /\ fetch[w1].ref = fetch[w2].ref
        /\ fetch[w1].pc = "e_refresh"
        /\ fetch[w2].pc = "e_lock"

\* C12: a forced caller that acquires the lock after a refresh replacing the
\* access token it presents has been persisted does not call the token
\* endpoint: once the secret is reloaded it returns the stored record, whose
\* access token is another than the one it presented; and no two workers
\* persist a forced refresh for the same reference and the same rejected token.
C12_LateForcedCallerSkipsRefresh ==
    /\ \A w \in Workers :
        (EnsureReturned(w) /\ fetch[w].er.force /\ fetch[w].er.late) =>
            /\ ~fetch[w].er.called
            /\ fetch[w].er.after = fetch[w].er.before
            /\ fetch[w].er.err = NoErr =>
                /\ fetch[w].er.tokens = decodeOAuthTokens(fetch[w].er.after).tokens
                /\ fetch[w].er.tokens.AccessToken # fetch[w].er.stale
            /\ fetch[w].er.err # NoErr =>
                fetch[w].er.err = {"load auth secret for refresh"}
    /\ \A p, q \in persisted :
        (p.force /\ q.force /\ p.ref = q.ref /\ p.stale = q.stale) => p.worker = q.worker

\* a forced caller returns the stored token that another worker's forced
\* refresh for the same rejected token has persisted
C12_Witness ==
    \E w \in Workers, p \in persisted :
        /\ EnsureReturned(w)
        /\ fetch[w].er.force /\ fetch[w].er.late /\ fetch[w].er.err = NoErr
        /\ p.force /\ p.worker # w /\ p.ref = fetch[w].ref /\ p.stale = fetch[w].er.stale

\* ensureFreshTokens has just returned to worker w without error from a call
\* in which the token endpoint granted a refresh
RefreshSucceeded(w) ==
    EnsureReturned(w) /\ fetch[w].er.called /\ fetch[w].er.err = NoErr

\* what C13 says but for ExpiresAt: the record returned is the record persisted,
\* with the refreshed access token and the stored refresh and id token
\* wherever the response omits them
RefreshedRecord(er) ==
    /\ decodeOAuthTokens(er.after) = [tokens |-> er.tokens, err |-> NoErr]
    /\ er.tokens.AccessToken = er.refreshed.AccessToken
    /\ er.tokens.RefreshToken =
            IF er.refreshed.RefreshToken = EmptyString
            THEN er.stored.RefreshToken ELSE er.refreshed.RefreshToken
    /\ er.tokens.IDToken =
            IF er.refreshed.IDToken = EmptyString
            THEN er.stored.IDToken ELSE er.refreshed.IDToken

\* C13, as the specification states it: after a refresh that succeeds the
\* record persisted and returned carries the refreshed access token, keeps
\* the stored refresh and id token wherever the response omits them, and has
\* ExpiresAt equal to the refresh time plus the ExpiresIn of the response.
C13_Claim ==
    \A w \in Workers :
        RefreshSucceeded(w) =>
            /\ RefreshedRecord(fetch[w].er)
            /\ fetch[w].er.tokens.ExpiresAt = fetch[w].er.at + fetch[w].er.refreshed.ExpiresIn

\* C13, amended: as above, with ExpiresAt equal to the refresh time plus the
\* ExpiresIn of the response when that is positive, and zero (no known
\* expiry, whatever the stored record held) when the response reports none.
C13_RefreshedRecordPersisted ==
    \A w \in Workers :
        RefreshSucceeded(w) =>
            /\ RefreshedRecord(fetch[w].er)
            /\ fetch[w].er.tokens.ExpiresIn = fetch[w].er.refreshed.ExpiresIn
            /\ fetch[w].er.tokens.ExpiresAt =
                    IF fetch[w].er.refreshed.ExpiresIn > 0
                    THEN fetch[w].er.at + fetch[w].er.refreshed.ExpiresIn
                    ELSE 0

\* a refresh answered after a minute, with a lifetime and without refresh and
\* id token, while the stored record holds both
C13_Witness ==
    \E w \in Workers :
        /\ RefreshSucceeded(w)
        /\ fetch[w].er.at > 0
        /\ fetch[w].er.refreshed.ExpiresIn > 0
        /\ fetch[w].er.refreshed.RefreshToken = EmptyString
        /\ fetch[w].er.refreshed.IDToken = EmptyString
        /\ fetch[w].er.stored.RefreshToken # EmptyString
        /\ fetch[w].er.stored.IDToken # EmptyString

\* ensureFreshTokens has just returned the invalid-refresh-token error to w
InvalidRefreshToken(w) ==
    EnsureReturned(w) /\ IsRefreshTokenInvalid(fetch[w].er.err)

NumAccounts == 6

maxConcurrent == 5
nil == <<"nil", 0>>
ctxErr == <<"context canceled", 0>>
FetchError(a) == <<"fetch failed", a>>
allFailed == <<"all accounts failed to fetch", 0>>
fetchResult(accountID, e) == [accountID |-> accountID, err |-> e]
Summary(n, total) == <<"accounts updated successfully", n, total>>
FetchOutcomes(a) == {nil, FetchError(a)}
Accounts == DOMAIN goroutine

\* runUsageFetch calls fetchAccountsConcurrently with at least one account;
\* the goroutines are started and none has run yet
BatchInit ==
    /\ \E n \in 1..NumAccounts : goroutine = [a \in 1..n |-> "select"]
    /\ semaphore = 0
    /\ cancelled = FALSE
    /\ results = EmptyBag
    /\ closed = FALSE
    /\ successes = EmptyBag
    /\ failures = EmptyBag
    /\ written = EmptyBag
    /\ batchRet = [returned |-> FALSE]
    /\ own = [a \in Accounts |-> <<"none", 0>>]
    /\ CredOff /\ RefreshOff /\ PickOff /\ LaterOff

BatchOnly == UNCHANGED <<credVars, refreshVars, pickVars, laterVars>>

\* the caller's context is cancelled while the batch runs
Cancel ==
    /\ ~cancelled
    /\ ~batchRet.returned
    /\ cancelled' = TRUE
    /\ UNCHANGED <<goroutine, semaphore, results, closed, successes, failures,
                   written, batchRet, own>>
    /\ BatchOnly

\* mutant of Acquire: the slot is taken whatever the channel holds
AcquireNoLimit(a) ==
    /\ goroutine[a] = "select"
    /\ semaphore' = semaphore + 1
    /\ goroutine' = [goroutine EXCEPT ![a] = "fetching"]
    /\ UNCHANGED <<cancelled, results, closed, successes, failures, written,
                   batchRet, own>>
    /\ BatchOnly
\* select: case semaphore <- struct{}{}
Acquire(a) ==
    /\ goroutine[a] = "select"
    /\ semaphore < maxConcurrent
    /\ semaphore' = semaphore + 1
    /\ goroutine' = [goroutine EXCEPT ![a] = "fetching"]
    /\ UNCHANGED <<cancelled, results, closed, successes, failures, written,
                   batchRet, own>>
    /\ BatchOnly

\* select: case <-ctx.Done(): the result carries ctx.Err(); wg.Done()
Abandon(a) ==
    /\ goroutine[a] = "select"
    /\ cancelled
    /\ results' = results (+) SetToBag({fetchResult(a, ctxErr)})
    /\ goroutine' = [goroutine EXCEPT ![a] = "done"]
    /\ own' = [own EXCEPT ![a] = ctxErr]
    /\ UNCHANGED <<semaphore, cancelled, closed, successes, failures, written,
                   batchRet>>
    /\ BatchOnly

\* mutant of FetchFinish: a failed fetch cancels the context
FetchFinishCancelsSiblings(a, e) ==
    /\ goroutine[a] = "fetching"
    /\ e \in FetchOutcomes(a)
    /\ results' = results (+) SetToBag({fetchResult(a, e)})
    /\ semaphore' = semaphore - 1
    /\ goroutine' = [goroutine EXCEPT ![a] = "done"]
    /\ own' = [own EXCEPT ![a] = e]
    /\ cancelled' = (cancelled \/ e # nil)
    /\ UNCHANGED <<closed, successes, failures, written, batchRet>>
    /\ BatchOnly
\* mutant of FetchFinish: the slot of the semaphore is kept
FetchFinishKeepsSlot(a, e) ==
    /\ goroutine[a] = "fetching"
    /\ e \in FetchOutcomes(a)
    /\ results' = results (+) SetToBag({fetchResult(a, e)})
    /\ goroutine' = [goroutine EXCEPT ![a] = "done"]
    /\ own' = [own EXCEPT ![a] = e]
    /\ UNCHANGED <<semaphore, cancelled, closed, successes, failures, written, batchRet>>
    /\ BatchOnly
\* err := fetchAndPersistLimits(ctx, app, acc); results <- fetchResult{...};
\* the deferred <-semaphore and wg.Done()
FetchFinish(a, e) ==
    /\ goroutine[a] = "fetching"
    /\ e \in FetchOutcomes(a)
    /\ results' = results (+) SetToBag({fetchResult(a, e)})
    /\ semaphore' = semaphore - 1
    /\ goroutine' = [goroutine EXCEPT ![a] = "done"]
    /\ own' = [own EXCEPT ![a] = e]
    /\ UNCHANGED <<cancelled, closed, successes, failures, written, batchRet>>
    /\ BatchOnly

\* wg.Wait(); close(results)
Close ==
    /\ ~closed
    /\ \A a \in Accounts : goroutine[a] = "done"
    /\ closed' = TRUE
    /\ UNCHANGED <<goroutine, semaphore, cancelled, results, successes,
                   failures, written, batchRet, own>>
    /\ BatchOnly

\* one turn of `for result := range results`
Collect(result) ==
    /\ BagIn(result, results)
    /\ results' = results (-) SetToBag({result})
    /\ IF result.err = nil
       THEN /\ successes' = successes (+) SetToBag({result.accountID})
            /\ UNCHANGED failures
       ELSE /\ failures' = failures (+) SetToBag({result})
            /\ UNCHANGED successes
    /\ UNCHANGED <<goroutine, semaphore, cancelled, closed, written, batchRet, own>>
    /\ BatchOnly

\* the lines written to errWriter after the loop
Report(succ, fail, total) ==
    BagOfAll(LAMBDA f : f.err, fail)
    (+) (IF BagCardinality(succ) > 0 /\ BagCardinality(fail) > 0
         THEN SetToBag({Summary(BagCardinality(succ), total)})
         ELSE EmptyBag)

\* mutant of batchError: any failure fails the batch
batchErrorOnAnyFailure(fail, total) ==
    IF BagCardinality(fail) > 0
    THEN IF total = 1 THEN (CHOOSE f \in BagToSet(fail) : TRUE).err
         ELSE allFailed
    ELSE nil
\* the value fetchAccountsConcurrently returns
batchError(fail, total) ==
    IF BagCardinality(fail) = total
    THEN IF total = 1 THEN (CHOOSE f \in BagToSet(fail) : TRUE).err
         ELSE allFailed
    ELSE nil

\* the loop ends on the closed and drained channel; the failures are written
\* and fetchAccountsConcurrently returns
BatchReturn ==
    /\ closed
    /\ results = EmptyBag
    /\ ~batchRet.returned
    /\ written' = Report(successes, failures, Cardinality(Accounts))
    /\ batchRet' = [returned |-> TRUE,
                    err |-> batchError(failures, Cardinality(Accounts))]
    /\ UNCHANGED <<goroutine, semaphore, cancelled, results, closed, successes,
                   failures, own>>
    /\ BatchOnly

BatchNext ==
    \/ Cancel
    \/ \E a \in Accounts : Acquire(a)
    \/ \E a \in Accounts : Abandon(a)
    \/ \E a \in Accounts : \E e \in FetchOutcomes(a) : FetchFinish(a, e)
    \/ Close
    \/ \E result \in BagToSet(results) : Collect(result)
    \/ BatchReturn

BatchSpec == BatchInit /\ [][BatchNext]_vars

\* the accounts whose fetch is running
Running == {a \in Accounts : goroutine[a] = "fetching"}
\* the accounts whose goroutine has not passed its select
Waiting == {a \in Accounts : goroutine[a] = "select"}
\* the fetchResults received so far, successes as results with a nil error
Collected == failures (+) BagOfAll(LAMBDA id : fetchResult(id, nil), successes)

\* C15: at most maxConcurrent = 5 account fetches run at any time and each
\* holds one slot of the semaphore, so a further fetch starts only in a step
\* that finds fewer than 5 running, that is after one of them has finished.
C15_AtMostFiveFetches ==
    /\ [](Cardinality(Running) <= maxConcurrent /\ semaphore = Cardinality(Running))
    /\ [][\A a \in Accounts :
            (goroutine[a] = "select" /\ goroutine'[a] = "fetching") =>
                Cardinality(Running) < maxConcurrent]_vars

\* five fetches run and a sixth account waits for a slot
C15_Witness ==
    /\ Cardinality(Running) = maxConcurrent
    /\ Waiting # {}

\* C16: when the batch returns every account has exactly one result among
\* the successes and failures, and it is what that account's own goroutine
\* produced (nil or the account's own error from its fetch, the context's
\* error if it gave up); a fetch that finishes, with or without error,
\* changes no other account's goroutine or outcome and does not cancel the
\* context, and unless the caller cancels every account's fetch runs.
C16_OneResultPerAccount ==
    /\ [](batchRet.returned =>
            /\ BagCardinality(Collected) = Cardinality(Accounts)
            /\ \A a \in Accounts :
                /\ CopiesIn(fetchResult(a, own[a]), Collected) = 1
                /\ own[a] \in FetchOutcomes(a) \/ (cancelled /\ own[a] = ctxErr))
    /\ [][\A a \in Accounts :
            (goroutine[a] = "fetching" /\ goroutine'[a] = "done") =>
                /\ cancelled' = cancelled
                /\ \A b \in Accounts \ {a} :
                    goroutine'[b] = goroutine[b] /\ own'[b] = own[b]]_vars

\* a batch never cancelled has returned with one account failed and another
\* fetched successfully
C16_Witness ==
    /\ batchRet.returned
    /\ ~cancelled
    /\ \E a, b \in Accounts : own[a] = FetchError(a) /\ own[b] = nil

\* C17, as the specification states it: once the context is cancelled no
\* account that has not started its fetch starts one.
C17_Claim ==
    [][cancelled =>
        \A a \in Accounts : ~(goroutine[a] = "select" /\ goroutine'[a] = "fetching")]_vars

\* C18: the batch returns an error if and only if every account failed; with
\* at least one success it returns nil, having written each failed account's
\* error on a line of its own and, if any failed, the count of successes.
C18_ErrorIffAllFailed ==
    batchRet.returned =>
        /\ batchRet.err # nil <=> \A a \in Accounts : own[a] # nil
        /\ batchRet.err # nil =>
                batchRet.err = IF Cardinality(Accounts) = 1
                               THEN own[CHOOSE a \in Accounts : TRUE]
                               ELSE allFailed
        /\ \A a \in Accounts :
                own[a] # nil =>
                    CopiesIn(own[a], written)
                        = Cardinality({b \in Accounts : own[b] = own[a]})
        /\ ((\E a \in Accounts : own[a] = nil) /\ (\E a \in Accounts : own[a] # nil)) =>
                BagIn(Summary(Cardinality({a \in Accounts : own[a] = nil}),
                              Cardinality(Accounts)), written)

\* a batch has returned nil with one account fetched and two failed, one by
\* its own error and one given up on cancellation
C18_Witness ==
    /\ batchRet.returned
    /\ batchRet.err = nil
    /\ \E a, b, c \in Accounts :
        own[a] = nil /\ own[b] = FetchError(b) /\ own[c] = ctxErr

(***************************************************************************)
(* PoolService.PickAccount.  The call reads the pool and the account set   *)
(* and computes its answer from them; either read may fail.  A pool's      *)
(* Members hold no empty and no repeated id (Pool.NormalizeMembers, which  *)
(* runs before every save of the pool service) but may name accounts that  *)
(* are gone, and accounts.List returns one account per id.  Account ids    *)
(* are decimal numerals as sequences of digits, taken across a change of   *)
(* length so that their lexical order is not their numeric order; a        *)
(* provider is a sequence of pieces of text, " " being white space; a      *)
(* weekly snapshot is <<percent>> and <<>> where the account has none.     *)
(* Percent is a number.                                                    *)
(***************************************************************************)
NumPoolAccounts == 3

RECURSIVE Digits(_)
Digits(k) == IF k < 10 THEN <<k>> ELSE Append(Digits(k \div 10), k % 10)
\* the numerals up to "10"
AccountIDs == {Digits(k) : k \in (11 - NumPoolAccounts)..10}

\* string(a) < string(b)
RECURSIVE StringLess(_, _)
StringLess(a, b) ==
    IF b = <<>> THEN FALSE
    ELSE IF a = <<>> THEN TRUE
    ELSE IF Head(a) = Head(b) THEN StringLess(Tail(a), Tail(b))
    ELSE Head(a) < Head(b)

\* strings.TrimSpace
RECURSIVE TrimLeft(_)
TrimLeft(str) ==
    IF str # <<>> /\ Head(str) = " " THEN TrimLeft(Tail(str)) ELSE str
RECURSIVE TrimRight(_)
TrimRight(str) ==
    IF str # <<>> /\ str[Len(str)] = " "
    THEN TrimRight(SubSeq(str, 1, Len(str) - 1)) ELSE str
TrimSpace(str) == TrimRight(TrimLeft(str))

ProviderOpenAI == <<"openai">>
Providers == {<<"openai">>, <<" ", "openai", " ">>, <<"anthropic">>}
NoSnapshot == <<>>
WeeklySnapshots == {NoSnapshot, <<0>>, <<10>>, <<30>>, <<100>>}
PoolAccount(id, provider, weekly) == [ID |-> id, Provider |-> provider, Weekly |-> weekly]

\* the duplicate-free sequences over a set of ids
RECURSIVE Orderings(_)
Orderings(ids) ==
    IF ids = {} THEN {<<>>}
    ELSE UNION {{<<id>> \o rest : rest \in Orderings(ids \ {id})} : id \in ids}
MemberLists == UNION {Orderings(ids) : ids \in SUBSET AccountIDs}

\* domain.Pool, reduced to the fields the pool service reads or writes; ID,
\* Name and Strategy are those of the default pool
Pool(provider, active, autoSyncMembers, members) ==
    [exists |-> TRUE, Provider |-> provider, Active |-> active,
     AutoSyncMembers |-> autoSyncMembers, Members |-> members]
\* pools.toml holds no pool of the id
NoPool == [exists |-> FALSE]
ErrPoolNotFound == "pool not found"
ErrPoolInactive == "pool is deactivated"

NotPicked == [status |-> "none"]
\* PickAccount reads the accounts through a map by id, so one order of the
\* file stands for all, and it does not read AutoSyncMembers
PickInit ==
    /\ \E ids \in SUBSET AccountIDs :
        /\ poolAccounts \in [ids -> {PoolAccount(<<>>, p, w) : p \in Providers, w \in WeeklySnapshots}]
        /\ accountOrder = CHOOSE o \in Orderings(ids) : TRUE
    /\ \E members \in MemberLists, active \in BOOLEAN :
        pool = Pool(ProviderOpenAI, active, TRUE, members)
    /\ picked = NotPicked
    /\ poolRet = [op |-> "none"]
    /\ earlier = <<>>
    /\ CredOff /\ RefreshOff /\ BatchOff /\ LaterOff

\* mutant of Exhausted: 100 percent is not yet exhausted
ExhaustedOver100(acc) ==
    acc.Weekly # NoSnapshot /\ acc.Weekly[1] > 100
\* account.Limits.Weekly != nil && account.Limits.Weekly.Percent >= 100
Exhausted(acc) ==
    acc.Weekly # NoSnapshot /\ acc.Weekly[1] >= 100

\* mutant of Candidates: exhausted members stay in
RECURSIVE CandidatesKeepExhausted(_, _, _)
CandidatesKeepExhausted(members, byID, provider) ==
    IF members = <<>> THEN <<>>
    ELSE LET member == Head(members)
             rest == CandidatesKeepExhausted(Tail(members), byID, provider)
         IN  IF member \notin DOMAIN byID THEN rest
             ELSE IF TrimSpace(byID[member].Provider) # provider THEN rest
             ELSE <<byID[member]>> \o rest
\* the loop over pool.Members that collects the candidates
RECURSIVE Candidates(_, _, _)
Candidates(members, byID, provider) ==
    IF members = <<>> THEN <<>>
    ELSE LET member == Head(members)
             rest == Candidates(Tail(members), byID, provider)
         IN  IF member \notin DOMAIN byID THEN rest
             ELSE IF TrimSpace(byID[member].Provider) # provider THEN rest
             ELSE IF Exhausted(byID[member]) THEN rest
             ELSE <<byID[member]>> \o rest

weeklyPercent(acc) ==
    IF acc.Weekly = NoSnapshot THEN 0 ELSE acc.Weekly[1]

\* mutant of candidateLess: no tie-break by id
candidateLessByPercent(left, right) == weeklyPercent(left) < weeklyPercent(right)
\* the less function given to sort.Slice
candidateLess(left, right) ==
    IF weeklyPercent(left) = weeklyPercent(right)
    THEN StringLess(left.ID, right.ID)
    ELSE weeklyPercent(left) < weeklyPercent(right)

\* sort.Slice(candidates, less), as an insertion sort
RECURSIVE Insert(_, _)
Insert(c, sorted) ==
    IF sorted = <<>> THEN <<c>>
    ELSE IF candidateLess(c, Head(sorted)) THEN <<c>> \o sorted
    ELSE <<Head(sorted)>> \o Insert(c, Tail(sorted))
RECURSIVE SortSlice(_)
SortSlice(candidates) ==
    IF candidates = <<>> THEN <<>>
    ELSE Insert(Head(candidates), SortSlice(Tail(candidates)))

PickOutcomes == {"ok", "fail"}
\* PoolService.PickAccount(ctx, poolID)
PickAccount(getOutcome, listOutcome) ==
    /\ getOutcome = "fail" => listOutcome = "ok"
    /\ picked' =
        IF getOutcome = "fail" THEN [status |-> "error", err |-> "pools.GetByID"]
        ELSE IF ~pool.exists THEN [status |-> "error", err |-> ErrPoolNotFound]
        ELSE IF listOutcome = "fail" THEN [status |-> "error", err |-> "list accounts"]
        ELSE LET byID == [id \in DOMAIN poolAccounts |->
                            [poolAccounts[id] EXCEPT !.ID = id]]
                 candidates == Candidates(pool.Members, byID, pool.Provider)
                 sorted == SortSlice(candidates)
             IN  IF Len(candidates) = 0
                 THEN [status |-> "error", err |-> "no eligible accounts in pool"]
                 ELSE [status |-> "ok",
                       picked |-> sorted[1].ID,
                       failover |-> [i \in 1..(Len(sorted) - 1) |-> sorted[i + 1].ID]]
    /\ poolRet' = [op |-> "pick"]
    /\ UNCHANGED <<poolAccounts, accountOrder, pool>>
    /\ UNCHANGED <<credVars, refreshVars, batchVars, laterVars>>

PickNext ==
    \E getOutcome \in PickOutcomes, listOutcome \in PickOutcomes :
        PickAccount(getOutcome, listOutcome) /\ UNCHANGED earlier

PickSpec == PickInit /\ [][PickNext]_vars

\* the ids PickAccount returned, the pick first
PickOrder == <<picked.picked>> \o picked.failover
\* the weekly snapshot of a listed account
WeeklyOf(id) == poolAccounts[id].Weekly
\* the weekly-used percent an account is ranked by
Used(id) == IF WeeklyOf(id) = NoSnapshot THEN 0 ELSE WeeklyOf(id)[1]
\* the members PickAccount may return: listed, of the pool's provider once
\* surrounding white space is dropped, and with no weekly snapshot at or
\* above 100 percent
EligibleMembers ==
    {id \in DOMAIN poolAccounts :
        /\ \E i \in DOMAIN pool.Members : pool.Members[i] = id
        /\ TrimSpace(poolAccounts[id].Provider) = pool.Provider
        /\ (WeeklyOf(id) = NoSnapshot \/ WeeklyOf(id)[1] < 100)}
\* three members of the pool's provider at weekly 100, 30 and 10 percent
ExhaustedExample(a, b, c) ==
    /\ DOMAIN poolAccounts = {a, b, c}
    /\ Len(pool.Members) = 3
    /\ \A id \in {a, b, c} :
        /\ TrimSpace(poolAccounts[id].Provider) = pool.Provider
        /\ \E i \in DOMAIN pool.Members : pool.Members[i] = id
    /\ WeeklyOf(a) = <<100>> /\ WeeklyOf(b) = <<30>> /\ WeeklyOf(c) = <<10>>

\* C19: no account PickAccount returns, as the pick or in the failover list,
\* has a weekly snapshot of 100 percent or more; with members at 100, 30 and
\* 10 percent it returns the 10% account and a failover list of the 30% one.
C19_NoExhaustedAccountReturned ==
    picked.status = "ok" =>
        /\ \A i \in DOMAIN PickOrder :
            /\ PickOrder[i] \in DOMAIN poolAccounts
            /\ WeeklyOf(PickOrder[i]) = NoSnapshot \/ WeeklyOf(PickOrder[i])[1] < 100
        /\ \A a, b, c \in AccountIDs :
            ExhaustedExample(a, b, c) => picked.picked = c /\ picked.failover = <<b>>

\* PickAccount has answered for members at 100, 30 and 10 percent
C19_Witness ==
    /\ picked.status = "ok"
    /\ \E a, b, c \in AccountIDs : ExhaustedExample(a, b, c)

\* C20: when PickAccount succeeds, the pick followed by the failover list
\* holds each eligible member once and nothing else, in ascending order of
\* weekly-used percent (0 without a weekly snapshot), accounts of equal
\* percent in lexical order of their ids.
C20_SortedEligibleMembers ==
    picked.status = "ok" =>
        /\ {PickOrder[i] : i \in DOMAIN PickOrder} = EligibleMembers
        /\ Len(PickOrder) = Cardinality(EligibleMembers)
        /\ \A i, j \in DOMAIN PickOrder :
            i < j =>
                \/ Used(PickOrder[i]) < Used(PickOrder[j])
                \/ /\ Used(PickOrder[i]) = Used(PickOrder[j])
                   /\ StringLess(PickOrder[i], PickOrder[j])

\* PickAccount has returned three accounts, the first two tied between no
\* snapshot and 0 percent, with the id "10" ranked before "9" and the
\* members listed in another order
C20_Witness ==
    /\ picked.status = "ok"
    /\ Len(PickOrder) = 3
    /\ Used(PickOrder[1]) = Used(PickOrder[2])
    /\ WeeklyOf(PickOrder[1]) # WeeklyOf(PickOrder[2])
    /\ PickOrder[1] = <<1, 0>> /\ PickOrder[2] = <<9>>
    /\ Used(PickOrder[3]) > 0
    /\ pool.Members # PickOrder

\* C21, as the specification states it: PickAccount on a pool whose Active
\* flag is false returns the pool-inactive error and no account, whatever
\* its members.
C21_Claim ==
    (pool.exists /\ ~pool.Active) =>
        /\ picked.status # "ok"
        /\ (picked.status = "error" /\ picked.err # "pools.GetByID") =>
                picked.err = ErrPoolInactive

(***************************************************************************)
(* Pool service over time.  ActivateDefaultOpenAIPool, DeactivatePool,     *)
(* Service.SetLimit for the weekly window and PickAccount are called one   *)
(* after another on the default pool, over accounts.toml and pools.toml.   *)
(* Each call of a repository may fail and then changes nothing.  The       *)
(* accounts come with a provider and an auth method and stay in the file   *)
(* in one order; only their weekly snapshot changes.  pools.toml may hold  *)
(* no default pool, or one written by hand: active or not, syncing its     *)
(* members or not, or of a provider the service does not support.          *)
(***************************************************************************)
NumSyncAccounts == 2

SyncIDs == {Digits(k) : k \in (11 - NumSyncAccounts)..10}
SyncProviders == {<<"openai">>, <<" ", "OpenAI">>, <<"anthropic">>}
SyncSnapshots == {NoSnapshot, <<30>>, <<100>>}
\* domain.Account, reduced to what the pool service reads
SyncAccount(provider, method, weekly) ==
    [ID |-> <<>>, Provider |-> provider, Method |-> method, Weekly |-> weekly]

\* strings.ToLower
ToLower(str) == [i \in DOMAIN str |-> IF str[i] = "OpenAI" THEN "openai" ELSE str[i]]

\* accounts.List: the accounts in the order of the file
ListAccounts ==
    [i \in DOMAIN accountOrder |->
        [poolAccounts[accountOrder[i]] EXCEPT !.ID = accountOrder[i]]]

\* openAIMembers(accounts)
RECURSIVE openAIMembers(_)
openAIMembers(accounts) ==
    IF accounts = <<>> THEN <<>>
    ELSE LET acc == Head(accounts)
             provider == TrimSpace(ToLower(acc.Provider))
         IN  IF provider = ProviderOpenAI \/ acc.Method = AuthMethodChatGPT
             THEN <<acc.ID>> \o openAIMembers(Tail(accounts))
             ELSE openAIMembers(Tail(accounts))

\* strings.TrimSpace of an account id; an id is a sequence of digits, in
\* which -1 stands for white space
RECURSIVE TrimID(_)
TrimID(id) ==
    IF id # <<>> /\ Head(id) = -1 THEN TrimID(Tail(id))
    ELSE IF id # <<>> /\ id[Len(id)] = -1 THEN TrimID(SubSeq(id, 1, Len(id) - 1))
    ELSE id

\* Pool.NormalizeMembers
RECURSIVE NormalizeFrom(_, _)
NormalizeFrom(members, seen) ==
    IF members = <<>> THEN <<>>
    ELSE LET trimmed == TrimID(Head(members))
         IN  IF trimmed = <<>> \/ trimmed \in seen
             THEN NormalizeFrom(Tail(members), seen)
             ELSE <<trimmed>> \o NormalizeFrom(Tail(members), seen \cup {trimmed})
NormalizeMembers(members) == NormalizeFrom(members, {})

\* Pool.Validate: the default pool has an id, a name and a strategy
Validate(p) ==
    IF p.Provider # ProviderOpenAI THEN {"unsupported provider"} ELSE NoErr

PoolInit ==
    /\ \E ids \in SUBSET SyncIDs :
        /\ poolAccounts \in [ids -> {SyncAccount(p, m, w) :
                                p \in SyncProviders, m \in Methods, w \in SyncSnapshots}]
        /\ accountOrder \in Orderings(ids)
    /\ \/ pool = NoPool
       \/ pool = Pool(<<"anthropic">>, FALSE, TRUE, <<>>)
       \/ \E active \in BOOLEAN, autoSync \in BOOLEAN,
             members \in UNION {Orderings(ids) : ids \in SUBSET SyncIDs} :
            pool = Pool(ProviderOpenAI, active, autoSync, members)
    /\ picked = NotPicked
    /\ poolRet = [op |-> "none"]
    /\ earlier = <<>>
    /\ CredOff /\ RefreshOff /\ BatchOff /\ LaterOff

PoolOnly == UNCHANGED <<credVars, refreshVars, batchVars, laterVars>>

\* the pool ActivateDefaultOpenAIPool builds when pools.toml has none
DefaultPool == Pool(ProviderOpenAI, FALSE, TRUE, <<>>)

\* mutant of Activated: the members are replaced whatever AutoSyncMembers says
ActivatedAlwaysSynced(stored, members) ==
    [stored EXCEPT !.Members = NormalizeMembers(members), !.Active = TRUE]
\* ActivateDefaultOpenAIPool, from `if pool.AutoSyncMembers` to NormalizeMembers
Activated(stored, members) ==
    [stored EXCEPT !.Members = NormalizeMembers(IF stored.AutoSyncMembers
                                                THEN members ELSE stored.Members),
                   !.Active = TRUE]

\* PoolService.ActivateDefaultOpenAIPool(ctx)
ActivateDefaultOpenAIPool(listOutcome, getOutcome, saveOutcome) ==
    LET stored == IF pool.exists THEN pool ELSE DefaultPool
        activated == Activated(stored, openAIMembers(ListAccounts))
        e == IF listOutcome = "fail" THEN {"list accounts"}
             ELSE IF getOutcome = "fail" THEN {"load default pool"}
             ELSE IF Validate(activated) # NoErr THEN Validate(activated)
             ELSE IF saveOutcome = "fail" THEN {"save pool"}
             ELSE NoErr
    IN  /\ listOutcome = "fail" => getOutcome = "ok"
        /\ (listOutcome = "fail" \/ getOutcome = "fail" \/ Validate(activated) # NoErr)
                => saveOutcome = "ok"
        /\ pool' = IF e = NoErr THEN activated ELSE pool
        /\ poolRet' = [op |-> "activate", err |-> e,
                       pool |-> IF e = NoErr THEN activated ELSE NoPool,
                       stored |-> IF e = NoErr THEN pool ELSE NoPool]
        /\ picked' = NotPicked
        /\ UNCHANGED <<poolAccounts, accountOrder, earlier>>
        /\ PoolOnly

\* PoolService.DeactivatePool(ctx, DefaultOpenAIPoolID)
DeactivatePool(getOutcome, saveOutcome) ==
    LET e == IF getOutcome = "fail" THEN {"pools.GetByID"}
             ELSE IF ~pool.exists THEN {ErrPoolNotFound}
             ELSE IF saveOutcome = "fail" THEN {"save pool"}
             ELSE NoErr
    IN  /\ (getOutcome = "fail" \/ ~pool.exists) => saveOutcome = "ok"
        /\ pool' = IF e = NoErr THEN [pool EXCEPT !.Active = FALSE] ELSE pool
        /\ poolRet' = [op |-> "deactivate", err |-> e]
        /\ picked' = NotPicked
        /\ UNCHANGED <<poolAccounts, accountOrder, earlier>>
        /\ PoolOnly

\* Service.SetLimit(ctx, id, LimitWindowWeekly, percent, resetsAt, capturedAt)
SetLimit(id, percent, getOutcome, saveOutcome) ==
    LET e == IF getOutcome = "fail" THEN {"get account by id"}
             ELSE IF id \notin DOMAIN poolAccounts THEN {"get account by id", "account not found"}
             ELSE IF saveOutcome = "fail" THEN {"save account limit"}
             ELSE NoErr
    IN  /\ (getOutcome = "fail" \/ id \notin DOMAIN poolAccounts) => saveOutcome = "ok"
        /\ poolAccounts' = IF e = NoErr
                           THEN [poolAccounts EXCEPT ![id].Weekly = <<percent>>]
                           ELSE poolAccounts
        /\ poolRet' = [op |-> "setlimit", err |-> e]
        /\ picked' = NotPicked
        /\ UNCHANGED <<accountOrder, pool, earlier>>
        /\ PoolOnly

\* PickAccount(ctx, DefaultOpenAIPoolID) as one call among the others
PoolPick(getOutcome, listOutcome) ==
    /\ PickAccount(getOutcome, listOutcome)
    /\ earlier' = IF picked.status = "ok" THEN picked.picked ELSE earlier

PoolNext ==
    \/ \E l \in Outcomes, g \in Outcomes, sv \in Outcomes :
            ActivateDefaultOpenAIPool(l, g, sv)
    \/ \E g \in Outcomes, sv \in Outcomes : DeactivatePool(g, sv)
    \/ \E id \in SyncIDs, percent \in {30, 100}, g \in Outcomes, sv \in Outcomes :
            SetLimit(id, percent, g, sv)
    \/ \E g \in PickOutcomes, l \in PickOutcomes : PoolPick(g, l)

PoolSpec == PoolInit /\ [][PoolNext]_vars

\* the last call was PickAccount and it read both files
PickAnswered ==
    /\ poolRet.op = "pick"
    /\ picked.status = "error" => picked.err \notin {"pools.GetByID", "list accounts"}
\* the default pool is active over exactly the accounts a and b, both listed
\* with the pool's provider, and a is at 100 percent of its week
ActivatedOver(a, b) ==
    /\ a # b
    /\ pool.exists /\ pool.Active /\ pool.Provider = ProviderOpenAI
    /\ {pool.Members[i] : i \in DOMAIN pool.Members} = {a, b}
    /\ {a, b} \subseteq DOMAIN poolAccounts
    /\ \A id \in {a, b} : poolAccounts[id].Provider = ProviderOpenAI
    /\ poolAccounts[a].Weekly = <<100>>

\* C22: on the pool activated over two accounts, one at 100 percent, a
\* PickAccount that finds the other at 30 percent returns it with an empty
\* failover list, and a PickAccount that finds the other at 100 percent too,
\* as after SetLimit recorded it, fails with the no-eligible-accounts error.
C22_PickThenExhaustThenFail ==
    \A a, b \in SyncIDs :
        (PickAnswered /\ ActivatedOver(a, b)) =>
            /\ poolAccounts[b].Weekly = <<30>> =>
                    picked = [status |-> "ok", picked |-> b, failover |-> <<>>]
            /\ poolAccounts[b].Weekly = <<100>> =>
                    picked = [status |-> "error", err |-> "no eligible accounts in pool"]

\* PickAccount has failed for want of an eligible account on the activated
\* pool, after the PickAccount before it had returned the second account
C22_Witness ==
    \E a, b \in SyncIDs :
        /\ PickAnswered /\ ActivatedOver(a, b)
        /\ poolAccounts[b].Weekly = <<100>>
        /\ picked.status = "error"
        /\ earlier = b

\* an account ActivateDefaultOpenAIPool takes for a member: its provider is
\* that of the pool, whatever the case and the white space around it, or it
\* logs in the way the provider's OAuth does
Matching(id) ==
    \/ TrimSpace(ToLower(poolAccounts[id].Provider)) = ProviderOpenAI
    \/ poolAccounts[id].Method = AuthMethodChatGPT
\* the ids of the matching accounts in the order of the file
MatchingIDs == SelectSeq(accountOrder, Matching)
\* the last call was an ActivateDefaultOpenAIPool that returned no error
ActivateSucceeded == poolRet.op = "activate" /\ poolRet.err = NoErr

Logicals == {"proj-a", "proj-b"}
SessionAccounts == {"2", "3"}
SessionTimes == {3}
Packets == {[Summary |-> "working on api", Decisions |-> <<"use wrapper">>],
            [Summary |-> "next step", Decisions |-> <<>>]}

\* time.RFC3339 has no fraction of a second; the zero time is written ""
formatTime(value) == IF value = 0 THEN <<>> ELSE <<value \div 2>>
parseTime(raw) == IF raw = <<>> THEN 0 ELSE raw[1] * 2

\* the file's entry for a runtime: sessions and account-session pairs in
\* the (unspecified) order of the map iteration, so as sets
toPoolRuntimeSchema(rt) ==
    [exists |-> TRUE,
     ActiveAccountID |-> rt.ActiveAccountID,
     LastSyncedAt |-> formatTime(rt.LastSyncedAt),
     Sessions |->
        {[LogicalSessionID |-> rt.Sessions[l].LogicalSessionID,
          AccountSessions |->
             {[AccountID |-> a, SessionID |-> rt.Sessions[l].AccountSessions[a]] :
                a \in DOMAIN rt.Sessions[l].AccountSessions},
          Memory |-> [Summary |-> rt.Sessions[l].Memory.Summary,
                      Decisions |-> rt.Sessions[l].Memory.Decisions,
                      UpdatedAt |-> formatTime(rt.Sessions[l].Memory.UpdatedAt)]] :
            l \in DOMAIN rt.Sessions}]

\* the runtime of a file entry: ledgers keyed by their LogicalSessionID
fromPoolRuntimeSchema(schema) ==
    [ActiveAccountID |-> schema.ActiveAccountID,
     LastSyncedAt |-> parseTime(schema.LastSyncedAt),
     Sessions |->
        [l \in {session.LogicalSessionID : session \in schema.Sessions} |->
            LET session == CHOOSE x \in schema.Sessions : x.LogicalSessionID = l
            IN  [LogicalSessionID |-> session.LogicalSessionID,
                 AccountSessions |->
                    [a \in {pair.AccountID : pair \in session.AccountSessions} |->
                        (CHOOSE pair \in session.AccountSessions :
                            pair.AccountID = a).SessionID],
                 Memory |-> [Summary |-> session.Memory.Summary,
                             Decisions |-> session.Memory.Decisions,
                             UpdatedAt |-> parseTime(session.Memory.UpdatedAt)]]]]

\* loadRuntime: GetByPoolID, a fresh runtime for ErrPoolNotFound
loadRuntime ==
    IF runtime.exists THEN fromPoolRuntimeSchema(runtime)
    ELSE [ActiveAccountID |-> "", LastSyncedAt |-> 0, Sessions |-> <<>>]

\* mutant of LedgerOf: every call starts the logical session's ledger anew
LedgerOfFresh(rt, logicalSessionID) ==
    [LogicalSessionID |-> logicalSessionID, AccountSessions |-> <<>>,
     Memory |-> [Summary |-> "", Decisions |-> <<>>, UpdatedAt |-> 0]]

\* runtime.Sessions[logicalSessionID] with its LogicalSessionID and its
\* AccountSessions set where the ledger is new
LedgerOf(rt, logicalSessionID) ==
    IF logicalSessionID \in DOMAIN rt.Sessions
    THEN rt.Sessions[logicalSessionID]
    ELSE [LogicalSessionID |-> logicalSessionID, AccountSessions |-> <<>>,
          Memory |-> [Summary |-> "", Decisions |-> <<>>, UpdatedAt |-> 0]]

\* runtime.Sessions[logicalSessionID] = ledger
WithLedger(rt, logicalSessionID, ledger) ==
    [rt EXCEPT !.Sessions =
        [l \in DOMAIN rt.Sessions \cup {logicalSessionID} |->
            IF l = logicalSessionID THEN ledger ELSE rt.Sessions[l]]]

\* PoolRuntimeRepository.Save: "ok" replaces the pool's entry, "error"
\* fails before the file is replaced, "chmod" fails after it was
SaveOutcomes == {"ok", "error", "chmod"}
SaveRuntime(rt, saveOutcome) ==
    runtime' = IF saveOutcome = "error" THEN runtime ELSE toPoolRuntimeSchema(rt)

\* the test's runtime with one mapped session, the id blank in a file
\* written by hand
SessionInit ==
    /\ \/ runtime = [exists |-> FALSE]
       \/ \E id \in {<<"session-2">>, <<" ">>} :
            runtime =
                [exists |-> TRUE, ActiveAccountID |-> "", LastSyncedAt |-> <<>>,
                 Sessions |->
                    {[LogicalSessionID |-> "proj-a",
                      AccountSessions |-> {[AccountID |-> "2", SessionID |-> id]},
                      Memory |-> [Summary |-> "existing-memory",
                                  Decisions |-> <<>>, UpdatedAt |-> <<>>]]}]
    /\ sessRet = [op |-> "none"]
    /\ CredOff /\ RefreshOff /\ BatchOff /\ PickOff /\ ResolveOff /\ ChainOff
    /\ SaveOff /\ TripOff /\ PollOff /\ LastOff

\* mutant of Attached: the pair's session id is minted on every call
AttachedAlwaysMinted(ledger, accountID) == FALSE

\* ok && strings.TrimSpace(sessionID) != ""
Attached(ledger, accountID) ==
    /\ accountID \in DOMAIN ledger.AccountSessions
    /\ TrimSpace(ledger.AccountSessions[accountID]) # <<>>

GetOrAttachAccountSession(logicalSessionID, accountID, clock, loadOutcome, saveOutcome) ==
    LET rt == loadRuntime
        ledger == LedgerOf(rt, logicalSessionID)
        sessionID == <<logicalSessionID, ":", accountID>>
        attached == [ledger EXCEPT !.AccountSessions =
                        [a \in DOMAIN ledger.AccountSessions \cup {accountID} |->
                            IF a = accountID THEN sessionID
                            ELSE ledger.AccountSessions[a]]]
        updated == [WithLedger(rt, logicalSessionID, attached) EXCEPT
                        !.ActiveAccountID = accountID, !.LastSyncedAt = clock]
        call == [op |-> "attach", logical |-> logicalSessionID, account |-> accountID]
    IN  /\ IF loadOutcome = "error"
           THEN /\ sessRet' = call @@ [id |-> <<>>, bootstrapped |-> FALSE,
                                       err |-> "load pool runtime"]
                /\ UNCHANGED runtime
           ELSE IF Attached(ledger, accountID)
           THEN /\ sessRet' = call @@ [id |-> ledger.AccountSessions[accountID],
                                       bootstrapped |-> FALSE, err |-> ""]
                /\ UNCHANGED runtime
           ELSE /\ SaveRuntime(updated, saveOutcome)
                /\ sessRet' = call @@
                        (IF saveOutcome = "ok"
                         THEN [id |-> sessionID, bootstrapped |-> TRUE, err |-> ""]
                         ELSE [id |-> <<>>, bootstrapped |-> FALSE,
                               err |-> "save pool runtime"])
        /\ SessionOnly

UpdateMemoryPacket(logicalSessionID, memory, clock, later, loadOutcome, saveOutcome) ==
    LET rt == loadRuntime
        ledger == [LedgerOf(rt, logicalSessionID) EXCEPT
                        !.Memory = memory @@ [UpdatedAt |-> clock]]
        updated == [WithLedger(rt, logicalSessionID, ledger) EXCEPT
                        !.LastSyncedAt = later]
        call == [op |-> "memory", logical |-> logicalSessionID]
    IN  /\ IF loadOutcome = "error"
           THEN /\ sessRet' = call @@ [err |-> "load pool runtime"]
                /\ UNCHANGED runtime
           ELSE /\ SaveRuntime(updated, saveOutcome)
                /\ sessRet' = call @@ [err |-> IF saveOutcome = "ok" THEN ""
                                               ELSE "save pool runtime"]
        /\ SessionOnly

\* the switch of the active account: the loaded runtime with the account
\* as ActiveAccountID is saved; whether LastSyncedAt moves is left open
SetActiveAccountID(accountID, clock, loadOutcome, saveOutcome) ==
    LET rt == loadRuntime
        call == [op |-> "switch", account |-> accountID]
    IN  /\ IF loadOutcome = "error"
           THEN /\ sessRet' = call @@ [err |-> "load pool runtime"]
                /\ UNCHANGED runtime
           ELSE /\ \E synced \in {rt.LastSyncedAt, clock} :
                      SaveRuntime([rt EXCEPT !.ActiveAccountID = accountID,
                                             !.LastSyncedAt = synced], saveOutcome)
                /\ sessRet' = call @@ [err |-> IF saveOutcome = "ok" THEN ""
                                               ELSE "save pool runtime"]
        /\ SessionOnly

\* every call with its inputs; the clock is read again for LastSyncedAt
SessionNext ==
    \E l \in Logicals, a \in SessionAccounts, clock \in SessionTimes,
       outcome \in {<<"error", "ok">>} \cup {<<"ok", s>> : s \in SaveOutcomes} :
        \/ GetOrAttachAccountSession(l, a, clock, outcome[1], outcome[2])
        \/ \E memory \in Packets, later \in {t \in SessionTimes : t >= clock} :
                /\ a = CHOOSE x \in SessionAccounts : TRUE
                /\ UpdateMemoryPacket(l, memory, clock, later, outcome[1], outcome[2])
        \/ /\ l = CHOOSE x \in Logicals : TRUE
           /\ SetActiveAccountID(a, clock, outcome[1], outcome[2])

SessionSpec == SessionInit /\ [][SessionNext]_vars

\* the non-blank provider session ids the file holds for a logical session
\* and an account (none or one)
AssignedIDs(file, l, a) ==
    IF ~file.exists THEN {}
    ELSE LET ledgers == {x \in file.Sessions : x.LogicalSessionID = l}
             pairs == UNION {x.AccountSessions : x \in ledgers}
         IN  {pair.SessionID :
                pair \in {q \in pairs : q.AccountID = a /\ TrimSpace(q.SessionID) # <<>>}}

\* C24: a provider session id assigned to a (logical session, account) pair
\* stays the pair's id in the stored ledger over every call, and a
\* GetOrAttachAccountSession for the pair that returns no error returns
\* that id with bootstrapped = false.
C24_AssignedSessionKept ==
    [][\A l \in Logicals, a \in SessionAccounts :
        \A id \in AssignedIDs(runtime, l, a) :
            /\ AssignedIDs(runtime', l, a) = {id}
            /\ (/\ sessRet'.op = "attach"
                /\ sessRet'.logical = l /\ sessRet'.account = a
                /\ sessRet'.err = "")
                    => sessRet'.id = id /\ ~sessRet'.bootstrapped]_vars

\* a session id minted earlier for account 3 is returned again, after the
\* session's memory was stored and another account became the active one
C24_Witness ==
    /\ sessRet.op = "attach" /\ sessRet.err = ""
    /\ sessRet.logical = "proj-a" /\ sessRet.account = "3"
    /\ sessRet.id = <<"proj-a", ":", "3">> /\ ~sessRet.bootstrapped
    /\ runtime.ActiveAccountID = "2"
    /\ \E session \in runtime.Sessions :
            /\ session.LogicalSessionID = "proj-a"
            /\ session.Memory.Summary = "working on api"

\* the memory packets the file holds for a logical session (none or one)
MemoryOf(file, l) ==
    IF ~file.exists THEN {}
    ELSE {session.Memory : session \in {x \in file.Sessions : x.LogicalSessionID = l}}

\* every (logical session, account, provider session id) the file holds
MappingsOf(file) ==
    IF ~file.exists THEN {}
    ELSE UNION {{<<session.LogicalSessionID, pair.AccountID, pair.SessionID>> :
                    pair \in session.AccountSessions} : session \in file.Sessions}

\* C25: a call of UpdateMemoryPacket leaves every account-session mapping
\* and the ActiveAccountID of the stored runtime as they were, and an
\* attachment of an account or a switch of the active account leaves the
\* memory packet of every stored ledger as it was.
C25_MemoryKeptOverSwitch ==
    [][/\ sessRet'.op = "memory" =>
            /\ MappingsOf(runtime') = MappingsOf(runtime)
            /\ runtime'.exists /\ runtime.exists =>
                    runtime'.ActiveAccountID = runtime.ActiveAccountID
            /\ runtime'.exists /\ ~runtime.exists => runtime'.ActiveAccountID = ""
       /\ sessRet'.op \in {"attach", "switch"} =>
            \A l \in Logicals : \A memory \in MemoryOf(runtime, l) :
                MemoryOf(runtime', l) = {memory}]_vars

\* the active account was switched to 3 while the ledger of proj-a holds a
\* stored memory packet and sessions of both accounts
C25_Witness ==
    /\ sessRet.op = "switch" /\ sessRet.err = "" /\ sessRet.account = "3"
    /\ runtime.ActiveAccountID = "3"
    /\ \E session \in runtime.Sessions :
            /\ session.LogicalSessionID = "proj-a"
            /\ session.Memory.Summary = "working on api"
            /\ session.Memory.UpdatedAt # <<>>
            /\ {pair.AccountID : pair \in session.AccountSessions} = SessionAccounts

(***************************************************************************)
(* The logical session id of a workspace and a window.  A string is the   *)
(* sequence of its characters.  SHA-1 is taken as free of collisions, so  *)
(* the hex digest of a string stands for the string itself.               *)
(***************************************************************************)
Workspaces == {<<"/", "a">>, <<"/", "a", "|", "b">>, <<" ", "/", "a">>}
Windows == {<<"w">>, <<"b", "|", "w">>, <<"w", " ">>}

\* hex.EncodeToString(sha1.Sum(raw)) of the two trimmed inputs joined by "|"
ResolveLogicalSessionID(workspaceRoot, windowFingerprint) ==
    LET raw == TrimSpace(workspaceRoot) \o <<"|">> \o TrimSpace(windowFingerprint)
    IN  <<"sha1">> \o raw

ResolveInit ==
    /\ resolved = {}
    /\ CredOff /\ RefreshOff /\ BatchOff /\ PickOff /\ SessionOff /\ ChainOff
    /\ SaveOff /\ TripOff /\ PollOff /\ LastOff

\* one call, as the run command makes it for its directory and window
Resolve(workspaceRoot, windowFingerprint) ==
    /\ resolved' = resolved \cup
            {[workspaceRoot |-> workspaceRoot,
              windowFingerprint |-> windowFingerprint,
              id |-> ResolveLogicalSessionID(workspaceRoot, windowFingerprint)]}
    /\ ResolveOnly

ResolveNext ==
    \E workspaceRoot \in Workspaces, windowFingerprint \in Windows :
        Resolve(workspaceRoot, windowFingerprint)

ResolveSpec == ResolveInit /\ [][ResolveNext]_vars

\* C26: two calls with the same inputs return the same id, and two calls
\* whose trimmed workspace roots differ or whose trimmed window fingerprints
\* differ return different ids.
C26_Claim ==
    \A x, y \in resolved :
        /\ (x.workspaceRoot = y.workspaceRoot /\
                x.windowFingerprint = y.windowFingerprint) => x.id = y.id
        /\ (TrimSpace(x.workspaceRoot) # TrimSpace(y.workspaceRoot) \/
                TrimSpace(x.windowFingerprint) # TrimSpace(y.windowFingerprint))
                    => x.id # y.id

(***************************************************************************)
(* The chain of secret stores.  chain.Store sends every Get, Put and      *)
(* Delete to the primary backend and, on some errors, to the fallback.    *)
(* An error is the sequence of the errors it wraps, outermost first, nil  *)
(* the empty sequence; errors.Is finds a target anywhere in it.  A        *)
(* backend that answers "ok" does what was asked (a Get of a key it does  *)
(* not hold is an error of its own); one that answers an error does       *)
(* nothing.  chainRet.lastPut remembers, per key, the value of a Put that  *)
(* returned nil with no Put or Delete of the key called since, "" if      *)
(* there is none.                                                          *)
(***************************************************************************)
ChainKeys == {"codex/oa/accounts/acc-1/api_key", "codex/oa/accounts/acc-2/api_key"}
ChainValues == {"secret", "newer secret"}
Canceled == "context canceled"
DeadlineExceeded == "context deadline exceeded"
BackendOutcomes ==
    {<<>>, <<"pass failed">>, <<Canceled>>, <<DeadlineExceeded>>,
     <<"pass show", Canceled>>, <<"pass show", DeadlineExceeded>>}

\* mutant of shouldSkipFallback: only a cancellation keeps the fallback out
shouldSkipFallbackCanceledOnly(e) == \E i \in DOMAIN e : e[i] = Canceled

shouldSkipFallback(e) ==
    \E i \in DOMAIN e : e[i] = Canceled \/ e[i] = DeadlineExceeded

ChainInit ==
    /\ primary \in [ChainKeys -> ChainValues] \cup {<<>>}
    /\ fallback \in [ChainKeys -> ChainValues] \cup {<<>>}
    /\ chainRet = [op |-> "none", lastPut |-> [k \in ChainKeys |-> ""]]
    /\ CredOff /\ RefreshOff /\ BatchOff /\ PickOff /\ SessionOff /\ ResolveOff
    /\ SaveOff /\ TripOff /\ PollOff /\ LastOff

Put(key, value, primaryErr, fallbackErr) ==
    LET stored == primaryErr = <<>> \/ (~shouldSkipFallback(primaryErr) /\ fallbackErr = <<>>)
        call == [op |-> "Put", key |-> key, primaryErr |-> primaryErr,
                 lastPut |-> [chainRet.lastPut EXCEPT ![key] = IF stored THEN value ELSE ""]]
    IN  /\ IF primaryErr = <<>>
           THEN /\ primary' = StorePut(primary, key, value)
                /\ chainRet' = call @@ [invoked |-> <<"primary">>, err |-> <<>>]
                /\ UNCHANGED fallback
           ELSE IF shouldSkipFallback(primaryErr)
           THEN /\ chainRet' = call @@ [invoked |-> <<"primary">>, err |-> primaryErr]
                /\ UNCHANGED <<primary, fallback>>
           ELSE /\ fallback' = IF fallbackErr = <<>>
                               THEN StorePut(fallback, key, value) ELSE fallback
                /\ chainRet' = call @@
                        [invoked |-> <<"primary", "fallback">>,
                         err |-> IF fallbackErr = <<>> THEN <<>>
                                 ELSE <<"primary backend put failed">> \o primaryErr \o
                                      <<"fallback backend put failed">> \o fallbackErr]
                /\ UNCHANGED primary
        /\ ChainOnly

Get(key, primaryOutcome, fallbackOutcome) ==
    LET primaryErr == IF primaryOutcome = <<>> /\ ~Has(primary, key)
                      THEN <<"secret not found">> ELSE primaryOutcome
        fallbackErr == IF fallbackOutcome = <<>> /\ ~Has(fallback, key)
                       THEN <<"secret not found">> ELSE fallbackOutcome
        call == [op |-> "Get", key |-> key, primaryErr |-> primaryErr,
                 lastPut |-> chainRet.lastPut]
    IN  /\ IF primaryErr = <<>>
           THEN chainRet' = call @@ [invoked |-> <<"primary">>, err |-> <<>>,
                                     value |-> primary[key]]
           ELSE IF shouldSkipFallback(primaryErr)
           THEN chainRet' = call @@ [invoked |-> <<"primary">>, err |-> primaryErr,
                                     value |-> ""]
           ELSE chainRet' = call @@
                    [invoked |-> <<"primary", "fallback">>,
                     err |-> IF fallbackErr = <<>> THEN <<>>
                             ELSE <<"primary backend get failed">> \o primaryErr \o
                                  <<"fallback backend get failed">> \o fallbackErr,
                     value |-> IF fallbackErr = <<>> THEN fallback[key] ELSE ""]
        /\ UNCHANGED <<primary, fallback>>
        /\ ChainOnly

Delete(key, primaryErr, fallbackErr) ==
    LET call == [op |-> "Delete", key |-> key, primaryErr |-> primaryErr,
                 lastPut |-> [chainRet.lastPut EXCEPT ![key] = ""]]
    IN  /\ IF primaryErr = <<>>
           THEN /\ primary' = StoreDelete(primary, key)
                /\ chainRet' = call @@ [invoked |-> <<"primary">>, err |-> <<>>]
                /\ UNCHANGED fallback
           ELSE IF shouldSkipFallback(primaryErr)
           THEN /\ chainRet' = call @@ [invoked |-> <<"primary">>, err |-> primaryErr]
                /\ UNCHANGED <<primary, fallback>>
           ELSE /\ fallback' = IF fallbackErr = <<>>
                               THEN StoreDelete(fallback, key) ELSE fallback
                /\ chainRet' = call @@
                        [invoked |-> <<"primary", "fallback">>,
                         err |-> IF fallbackErr = <<>> THEN <<>>
                                 ELSE <<"primary backend delete failed">> \o primaryErr \o
                                      <<"fallback backend delete failed">> \o fallbackErr]
                /\ UNCHANGED primary
        /\ ChainOnly

ChainNext ==
    \E key \in ChainKeys, primaryErr \in BackendOutcomes,
       fallbackErr \in {<<>>, <<"file failed">>} :
        \/ \E value \in ChainValues : Put(key, value, primaryErr, fallbackErr)
        \/ Get(key, primaryErr, fallbackErr)
        \/ Delete(key, primaryErr, fallbackErr)

ChainSpec == ChainInit /\ [][ChainNext]_vars

\* C27: in every Get, Put and Delete of the chain the primary backend is
\* invoked first and once; the fallback is invoked, once and after it, if
\* and only if the primary returned an error that is neither a context
\* cancellation nor a deadline expiry, wrapped or not; and a cancellation
\* or deadline error of the primary is what the chain returns.
C27_FallbackOnlyOnOtherErrors ==
    chainRet.op # "none" =>
        LET contextError == \E i \in DOMAIN chainRet.primaryErr :
                chainRet.primaryErr[i] \in {Canceled, DeadlineExceeded}
        IN  /\ chainRet.invoked \in {<<"primary">>, <<"primary", "fallback">>}
            /\ chainRet.invoked = <<"primary", "fallback">> <=>
                    (chainRet.primaryErr # <<>> /\ ~contextError)
            /\ chainRet.primaryErr = <<>> => chainRet.err = <<>>
            /\ contextError => chainRet.err = chainRet.primaryErr

\* a Get whose primary backend failed with a wrapped deadline error
\* returned that error without asking the fallback, which holds the key
C27_Witness ==
    /\ chainRet.op = "Get"
    /\ chainRet.primaryErr = <<"pass show", DeadlineExceeded>>
    /\ chainRet.err = chainRet.primaryErr
    /\ chainRet.invoked = <<"primary">>
    /\ Has(fallback, chainRet.key)

(***************************************************************************)
(* Concurrent Save.  Goroutines of one process each open a repository on  *)
(* some spelling of the path of one accounts file and save one account,   *)
(* each its own.  A path is the sequence of its elements, an absolute one *)
(* starting with "/"; the process runs in the directory Cwd.  The steps   *)
(* of Save that touch the lock or the file are taken one at a time; the   *)
(* field spelled of a goroutine records the path it opened.               *)
(***************************************************************************)
NumSavers == 2
Savers == 1..NumSavers
Cwd == <<"/", "tmp">>
SavePaths == {<<"/", "tmp", "accounts.toml">>,
              <<"/", "tmp", ".", "accounts.toml">>,
              <<"/", "tmp", "oa", "..", "accounts.toml">>,
              <<"accounts.toml">>}

\* mutant of normalizeAccountsPath: the path is kept as it was spelled
normalizeAccountsPathAsSpelled(path) == path

\* filepath.Clean(filepath.Abs(path))
normalizeAccountsPath(path) ==
    LET absPath == IF Head(path) = "/" THEN path ELSE Cwd \o path
        RECURSIVE Clean(_, _)
        Clean(rest, out) ==
            IF rest = <<>> THEN out
            ELSE IF Head(rest) = "." THEN Clean(Tail(rest), out)
            ELSE IF Head(rest) = ".." /\ Len(out) > 1
                 THEN Clean(Tail(rest), SubSeq(out, 1, Len(out) - 1))
            ELSE IF Head(rest) = ".." THEN Clean(Tail(rest), out)
            ELSE Clean(Tail(rest), Append(out, Head(rest)))
    IN  Clean(Tail(absPath), <<"/">>)

\* the file holds no account or one saved earlier; no repository is open
SaveInit ==
    /\ saver = [g \in Savers |-> [pc |-> "new"]]
    /\ pathLockMap = <<>>
    /\ accountsFile \in {<<>>, <<[ID |-> 1, Name |-> "earlier"]>>}
    /\ CredOff /\ RefreshOff /\ BatchOff /\ PickOff
    /\ SessionOff /\ ResolveOff /\ ChainOff /\ TripOff /\ PollOff /\ LastOff

\* NewRepository with lockForPath: the repository shares the lock that the
\* registry holds for its normalised path, made at the first opening
NewRepository(g, path) ==
    LET accountsPath == normalizeAccountsPath(path)
    IN  /\ saver[g].pc = "new"
        /\ pathLockMap' =
                IF accountsPath \in DOMAIN pathLockMap THEN pathLockMap
                ELSE [x \in DOMAIN pathLockMap \cup {accountsPath} |->
                        IF x = accountsPath THEN 0 ELSE pathLockMap[x]]
        /\ saver' = [saver EXCEPT ![g] = [pc |-> "open", spelled |-> path, mu |-> accountsPath]]
        /\ UNCHANGED accountsFile
        /\ SaveOnly

\* Save up to r.mu.Lock(): a cancelled context returns at once, otherwise
\* the goroutine waits for the lock and takes it
SaveLock(g, cancelledCtx) ==
    /\ saver[g].pc = "open"
    /\ IF cancelledCtx
       THEN /\ saver' = [saver EXCEPT ![g] = @ @@ [ret |-> "context canceled"],
                                      ![g].pc = "done"]
            /\ UNCHANGED pathLockMap
       ELSE /\ pathLockMap[saver[g].mu] = 0
            /\ pathLockMap' = [pathLockMap EXCEPT ![saver[g].mu] = g]
            /\ saver' = [saver EXCEPT ![g].pc = "read"]
    /\ UNCHANGED accountsFile
    /\ SaveOnly

\* readSchema and the upsert of the account in the copy read; a read
\* error returns, the deferred Unlock freeing the lock
SaveRead(g, readOutcome) ==
    LET encoded == [ID |-> g + 1, Name |-> "new"]
        at == {i \in DOMAIN accountsFile : accountsFile[i].ID = encoded.ID}
        file == IF at = {} THEN Append(accountsFile, encoded)
                ELSE [accountsFile EXCEPT ![CHOOSE i \in at : \A j \in at : i <= j] = encoded]
    IN  /\ saver[g].pc = "read"
        /\ IF readOutcome = "error"
           THEN /\ saver' = [saver EXCEPT ![g] = @ @@ [ret |-> "read accounts file"],
                                          ![g].pc = "done"]
                /\ pathLockMap' = [pathLockMap EXCEPT ![saver[g].mu] = 0]
           ELSE /\ saver' = [saver EXCEPT ![g] = @ @@ [file |-> file],
                                          ![g].pc = "write"]
                /\ UNCHANGED pathLockMap
        /\ UNCHANGED accountsFile
        /\ SaveOnly

\* the second context check and writeSchema, then the deferred Unlock
SaveWrite(g, writeOutcome) ==
    /\ saver[g].pc = "write"
    /\ accountsFile' = IF writeOutcome = "ok" THEN saver[g].file ELSE accountsFile
    /\ saver' = [saver EXCEPT ![g] = @ @@ [ret |-> IF writeOutcome = "ok" THEN "nil"
                                                  ELSE writeOutcome],
                              ![g].pc = "done"]
    /\ pathLockMap' = [pathLockMap EXCEPT ![saver[g].mu] = 0]
    /\ SaveOnly

SaveNext ==
    \E g \in Savers :
        \/ \E path \in SavePaths : NewRepository(g, path)
        \/ \E cancelledCtx \in BOOLEAN : SaveLock(g, cancelledCtx)
        \/ \E readOutcome \in {"ok", "error"} : SaveRead(g, readOutcome)
        \/ \E writeOutcome \in {"ok", "context canceled", "write accounts file"} :
                SaveWrite(g, writeOutcome)

SaveSpec == SaveInit /\ [][SaveNext]_vars

\* C28: at every moment the account of every Save that has returned nil is
\* in the accounts file, whatever spellings of the path the repositories
\* were opened on, and at most one Save at a time is between reading and
\* writing the file.
C28_ConcurrentSavesKept ==
    /\ \A g \in Savers :
        (saver[g].pc = "done" /\ saver[g].ret = "nil") =>
            \E i \in DOMAIN accountsFile : accountsFile[i].ID = g + 1
    /\ Cardinality({g \in Savers : saver[g].pc \in {"read", "write"}}) <= 1

\* the Saves of all goroutines have returned nil, two of them through
\* repositories opened on different spellings of the path
C28_Witness ==
    /\ \A g \in Savers : saver[g].pc = "done" /\ saver[g].ret = "nil"
    /\ saver[1].spelled = <<"accounts.toml">>
    /\ saver[2].spelled = <<"/", "tmp", "oa", "..", "accounts.toml">>
    /\ Len(accountsFile) > NumSavers
    /\ DOMAIN pathLockMap = {<<"/", "tmp", "accounts.toml">>}

(***************************************************************************)
(* Save and load.  A value is saved through its repository into an empty  *)
(* file and loaded back by its id; the file holds what the schema         *)
(* conversions write.  Times are half seconds as above, so an odd time    *)
(* has a fraction of a second.  An absent list and an empty one are not   *)
(* told apart.                                                             *)
(***************************************************************************)
TripTimes == {0, 2, 3}
TripRefs == {NoRef, <<1>>, <<2>>}
TripSnapshots ==
    {<<>>} \cup {<<[Percent |-> 30, ResetsAt |-> resetsAt, CapturedAt |-> capturedAt]>> :
                    resetsAt \in TripTimes, capturedAt \in TripTimes}

TripInit ==
    /\ trip = [kind |-> "none"]
    /\ CredOff /\ RefreshOff /\ BatchOff /\ PickOff
    /\ SessionOff /\ ResolveOff /\ ChainOff /\ SaveOff /\ PollOff /\ LastOff

\* Repository.Save then GetByID of an account: toSchema with the limit
\* snapshots through toLimitSnapshotSchema, back through fromSchema and
\* fromLimitSnapshotSchema; a snapshot is a sequence of none or one
SaveLoadAccount(acc, daily, weekly) ==
    LET toLimitSnapshotSchema(snapshot) ==
            IF snapshot = <<>> THEN <<>>
            ELSE <<[Percent |-> snapshot[1].Percent,
                    ResetsAt |-> formatTime(snapshot[1].ResetsAt),
                    CapturedAt |-> formatTime(snapshot[1].CapturedAt)]>>
        fromLimitSnapshotSchema(snapshot) ==
            IF snapshot = <<>> THEN <<>>
            ELSE <<[Percent |-> snapshot[1].Percent,
                    ResetsAt |-> parseTime(snapshot[1].ResetsAt),
                    CapturedAt |-> parseTime(snapshot[1].CapturedAt)]>>
        file == [account |-> toSchema(acc),
                 Daily |-> toLimitSnapshotSchema(daily),
                 Weekly |-> toLimitSnapshotSchema(weekly)]
    IN  /\ trip' = [kind |-> "Account",
                    saved |-> [account |-> acc, Daily |-> daily, Weekly |-> weekly],
                    loaded |-> [account |-> fromSchema(file.account),
                                Daily |-> fromLimitSnapshotSchema(file.Daily),
                                Weekly |-> fromLimitSnapshotSchema(file.Weekly)]]
        /\ TripOnly

\* PoolRepository.Save then GetByID: toPoolSchema and fromPoolSchema
SaveLoadPool(p, updatedAt) ==
    LET toPoolSchema(x) ==
            [Provider |-> x.pool.Provider, Active |-> x.pool.Active,
             AutoSyncMembers |-> x.pool.AutoSyncMembers,
             Members |-> x.pool.Members, UpdatedAt |-> formatTime(x.UpdatedAt)]
        fromPoolSchema(schema) ==
            [pool |-> Pool(schema.Provider, schema.Active, schema.AutoSyncMembers,
                           schema.Members),
             UpdatedAt |-> parseTime(schema.UpdatedAt)]
        saved == [pool |-> p, UpdatedAt |-> updatedAt]
    IN  /\ trip' = [kind |-> "Pool", saved |-> saved,
                    loaded |-> fromPoolSchema(toPoolSchema(saved))]
        /\ TripOnly

\* PoolRuntimeRepository.Save then GetByPoolID
SaveLoadRuntime(rt) ==
    /\ trip' = [kind |-> "PoolRuntime", saved |-> rt,
                loaded |-> fromPoolRuntimeSchema(toPoolRuntimeSchema(rt))]
    /\ TripOnly

TripNext ==
    \/ \E metaRef \in TripRefs, authRef \in TripRefs, weekly \in TripSnapshots :
            SaveLoadAccount(Account("Primary", AuthMethodAPIKey, metaRef, authRef),
                            <<>>, weekly)
    \/ \E active \in BOOLEAN, members \in {<<>>, <<"1", "2">>}, updatedAt \in TripTimes :
            SaveLoadPool(Pool(ProviderOpenAI, active, TRUE, members), updatedAt)
    \/ \E lastSyncedAt \in TripTimes, updatedAt \in TripTimes,
          logicalSessionID \in {"workspace-a", ""},
          ids \in SUBSET {<<"sess-1">>, <<"sess-2">>} :
            SaveLoadRuntime(
                [ActiveAccountID |-> "2", LastSyncedAt |-> lastSyncedAt,
                 Sessions |-> [l \in {"workspace-a"} |->
                    [LogicalSessionID |-> logicalSessionID,
                     AccountSessions |-> [a \in {id[1] : id \in ids} |-> <<a>>],
                     Memory |-> [Summary |-> "foo", Decisions |-> <<>>,
                                 UpdatedAt |-> updatedAt]]]])

TripSpec == TripInit /\ [][TripNext]_vars

\* C29: the value loaded back after a save of an Account, a Pool or a
\* PoolRuntime equals the value saved.
C29_Claim == trip.kind # "none" => trip.loaded = trip.saved

(***************************************************************************)
(* The device-flow polling loop.  Time is counted in units of five        *)
(* seconds.  The caller's context has no deadline of its own and may be   *)
(* cancelled while the loop waits; the request names a client and a       *)
(* device authorization.  A poll is answered after RequestDelays units,   *)
(* or not before the deadline, at which the request's context expires;    *)
(* the timer of a wait fires on time or TimerLag late.                    *)
(***************************************************************************)
DefaultPollInterval == 1
DefaultPollTimeout == 60
SlowDownStep == 1
TimerLag == 1
RequestDelays == {0, 1}
Responses == {"token", "authorization_pending", "slow_down", "access_denied"}
ErrDeviceFlowTimeout == "timed out waiting for device authorization"

PollInit ==
    /\ wallClock = 0
    /\ poller = [pc |-> "start"]
    /\ CredOff /\ RefreshOff /\ BatchOff /\ PickOff
    /\ SessionOff /\ ResolveOff /\ ChainOff /\ SaveOff /\ TripOff /\ LastOff

\* PollToken up to the loop: the defaults and the deadline
PollStart(pollInterval, timeout) ==
    /\ poller.pc = "start"
    /\ poller' = [pc |-> "check",
                  interval |-> IF pollInterval <= 0 THEN DefaultPollInterval
                               ELSE pollInterval,
                  deadline |-> wallClock + (IF timeout <= 0 THEN DefaultPollTimeout
                                            ELSE timeout),
                  sent |-> <<>>, answer |-> "none", ret |-> "none"]
    /\ UNCHANGED wallClock
    /\ PollOnly

\* mutant of Expired: the loop never finds the deadline passed
ExpiredNever(deadline) == FALSE

\* time.Now().After(deadline)
Expired(deadline) == wallClock > deadline

\* the head of the loop: the timeout error after the deadline, else the
\* poll is sent, under a context that expires at the deadline
PollCheck ==
    /\ poller.pc = "check"
    /\ poller' = IF Expired(poller.deadline)
                 THEN [poller EXCEPT !.pc = "done", !.ret = ErrDeviceFlowTimeout]
                 ELSE [poller EXCEPT !.pc = "request", !.sent = <<wallClock>>]
    /\ UNCHANGED wallClock
    /\ PollOnly

\* pollTokenOnce returns and the loop handles its result: the request
\* fails when its context expires or is refused before it is sent; a token
\* or another error ends the loop; a pending answer sets the interval and
\* ends the loop if the wait would pass the deadline
PollAnswer(delay, response, hint) ==
    LET nextInterval == (IF hint > 0 THEN hint ELSE poller.interval) +
                        (IF response = "slow_down" THEN SlowDownStep ELSE 0)
        interval == IF nextInterval > 0 THEN nextInterval ELSE poller.interval
        answered == [poller EXCEPT !.answer = response]
    IN  /\ poller.pc = "request"
        /\ IF wallClock + delay > poller.deadline
           THEN /\ wallClock' = IF wallClock > poller.deadline THEN wallClock
                                ELSE poller.deadline
                /\ poller' = [poller EXCEPT !.pc = "done", !.answer = "none",
                                !.ret = "request token: context deadline exceeded"]
           ELSE /\ wallClock' = wallClock + delay
                /\ poller' =
                    IF response = "token"
                    THEN [answered EXCEPT !.pc = "done", !.ret = "token"]
                    ELSE IF response \notin {"authorization_pending", "slow_down"}
                    THEN [answered EXCEPT !.pc = "done",
                                          !.ret = "request token: access_denied"]
                    ELSE IF wallClock' + interval > poller.deadline
                    THEN [answered EXCEPT !.pc = "done", !.interval = interval,
                                          !.ret = ErrDeviceFlowTimeout]
                    ELSE [answered EXCEPT !.pc = "wait", !.interval = interval]
        /\ PollOnly

\* the select on the timer and the caller's context
PollWait(lag, cancelledCtx) ==
    /\ poller.pc = "wait"
    /\ IF cancelledCtx
       THEN /\ poller' = [poller EXCEPT !.pc = "done", !.ret = "context canceled"]
            /\ UNCHANGED wallClock
       ELSE /\ poller' = [poller EXCEPT !.pc = "check"]
            /\ wallClock' = wallClock + poller.interval + lag
    /\ PollOnly

PollNext ==
    \/ \E pollInterval \in {0, 2}, timeout \in {0, 5} : PollStart(pollInterval, timeout)
    \/ PollCheck
    \/ \E delay \in RequestDelays \cup {DefaultPollTimeout + 1},
          response \in Responses, hint \in {0, 3} :
            PollAnswer(delay, response, hint)
    \/ \E lag \in {0, TimerLag}, cancelledCtx \in BOOLEAN : PollWait(lag, cancelledCtx)

PollSpec == PollInit /\ [][PollNext]_vars

\* every poll is answered or expires, every timer fires, the loop goes on
PollLiveSpec == PollSpec /\ WF_vars(PollNext)

\* the call has returned
PollReturned == poller.pc = "done"

\* C30 as stated: the loop returns the token, the server's other error or
\* (outside the claim) the caller's context error, and in every other
\* case, the deadline having passed, the device-flow timeout error.
C30_Claim ==
    PollReturned =>
        poller.ret \in {"token", "request token: access_denied", "context canceled",
                        ErrDeviceFlowTimeout}

\* C30: the loop terminates; no poll is sent after the deadline; the token
\* is returned on the answer that carries it and another error answer at
\* once; the device-flow timeout error is returned when the deadline has
\* passed at the head of the loop or the next wait would pass it; a poll
\* still unanswered at the deadline ends the loop with the error of its
\* expired request instead.
C30_PollingTerminates ==
    /\ <>PollReturned
    /\ [](poller.pc \in {"request", "wait", "check", "done"} =>
            /\ \A i \in DOMAIN poller.sent : poller.sent[i] <= poller.deadline
            /\ poller.pc = "wait" =>
                    /\ poller.answer \in {"authorization_pending", "slow_down"}
                    /\ wallClock + poller.interval <= poller.deadline
            /\ poller.interval > 0
            /\ PollReturned =>
                /\ poller.ret = "token" <=> poller.answer = "token"
                /\ poller.ret = "request token: access_denied"
                        <=> poller.answer = "access_denied"
                /\ poller.ret = ErrDeviceFlowTimeout =>
                        \/ wallClock > poller.deadline
                        \/ /\ poller.answer \in {"authorization_pending", "slow_down"}
                           /\ wallClock + poller.interval > poller.deadline
                /\ poller.ret = "request token: context deadline exceeded" =>
                        poller.sent # <<>> /\ wallClock >= poller.deadline)

\* after a slow_down answer and a wait that its timer ended late, the loop
\* found the deadline passed and returned the timeout error without a
\* further poll
C30_Witness ==
    /\ PollReturned
    /\ poller.ret = ErrDeviceFlowTimeout
    /\ poller.answer = "slow_down"
    /\ wallClock > poller.deadline
    /\ poller.sent # <<>> /\ poller.sent[1] + poller.interval < wallClock

\* C31: a slow_down answer after which the loop waits makes the interval
\* of that wait strictly longer than the interval in use before the answer.
C31_Claim ==
    [][(/\ poller.pc = "request"
        /\ poller'.pc = "wait"
        /\ poller'.answer = "slow_down")
            => poller'.interval > poller.interval]_vars

\* ---- ensureFreshTokens under a fair scheduler ----
\* the Go scheduler runs every goroutine that can take a step, and a mutex
\* that is free is handed to a goroutine blocked in Lock()
RefreshLiveSpec == RefreshSpec /\ WF_vars(RefreshNext)

\* C32: ensureFreshTokens releases the lock of the secret reference on every
\* exit path: a lock is held only by a worker that is between lock.Lock() and
\* its return, and a caller that waits for the lock of a credential
\* eventually acquires it, so that every fetch returns.
C32_LockReleasedOnEveryExit ==
    /\ [](\A r \in DOMAIN refreshLocks :
            refreshLocks[r] # 0 =>
                /\ InRefreshSection(refreshLocks[r])
                /\ lockForSecretRef(fetch[refreshLocks[r]].ref) = r)
    /\ \A w \in Workers : (fetch[w].pc = "e_lock") ~> (fetch[w].pc = "e_get")
    /\ <>(\A w \in Workers : fetch[w].pc = "done")

\* a worker holds the lock of a reference for which another worker's
\* ensureFreshTokens has returned with an error
C32_Witness ==
    \E w1, w2 \in Workers :
        /\ w1 # w2
        /\ fetch[w1].ref = fetch[w2].ref
        /\ fetch[w1].pc = "e_get"
        /\ refreshLocks[lockForSecretRef(fetch[w1].ref)] = w1
        /\ EnsureReturned(w2)
        /\ fetch[w2].er.err # NoErr

\* C33: within one fetch ensureFreshTokens is called with force=true at most
\* once, and a fetch that ends after a forced refresh gave back the rejected
\* token ends with the session-expired error.
C33_Claim ==
    [][\A w \in Workers :
        /\ fetch'[w].forced <= 1
        /\ (/\ EnsureReturned(w)
            /\ fetch[w].er.force
            /\ fetch[w].er.err = NoErr
            /\ fetch[w].er.tokens.AccessToken = fetch[w].er.stale
            /\ fetch'[w].pc = "done")
                => fetch'[w].ret = sessionExpired]_vars

\* =====================================================================
\* writeSchema (accounts file) and writeTOMLFile (pool and runtime files):
\* the data goes to a temp file in the directory of the destination, which
\* is then renamed over the destination
\* =====================================================================
MaxWrites == 2

accountsFileMode == "0600"
accountsDirMode == "0700"
NoFile == [exists |-> FALSE]
File(content, mode) == [exists |-> TRUE, content |-> content, mode |-> mode]
\* what toml.Marshal yields for the schemas put, in blocks of the file
Encodings == {<<"a1", "a2">>, <<"b1", "b2">>}
\* what a write cut short leaves in the file it writes to
Prefixes(data) == {SubSeq(data, 1, n) : n \in 0..Len(data)}

\* mutant of tempName: the data is put to the destination itself
tempNameIsPath == "dest"
\* tempName := tempFile.Name(), a fresh name in the directory of the destination
tempName == "temp"

\* the files before the first write: no directory, an empty directory, or a
\* file put earlier, with the mode of this program or a laxer one
WriteInit ==
    /\ fs \in {[dir |-> NoFile, dest |-> NoFile, temp |-> NoFile]}
           \cup {[dir |-> File(<<>>, accountsDirMode), dest |-> d, temp |-> NoFile] :
                    d \in {NoFile} \cup {File(<<"a1", "a2">>, m) : m \in {accountsFileMode, "0644"}}}
    /\ writing = [pc |-> "idle", data |-> <<>>, old |-> NoFile, ret |-> <<>>,
                  n |-> 0, seen |-> NoFile]
    /\ CredOff /\ RefreshOff /\ BatchOff /\ PickOff /\ MidOff /\ RaceOff

\* writeSchema(file) / writeTOMLFile(path, value) is called, also by the next
\* run of the program after a crash
WriteCall(data) ==
    /\ writing.pc \in {"idle", "crashed"}
    /\ writing.n < MaxWrites
    /\ writing' = [writing EXCEPT !.pc = "mkdir", !.data = data, !.old = fs.dest,
                                  !.ret = <<>>, !.n = @ + 1]
    /\ UNCHANGED fs
    /\ WriteOnly

\* one step of writeSchema / writeTOMLFile, which succeeds or fails; a Write
\* that fails has put `put` into the file.  A return with an error after
\* CreateTemp and before the rename runs the deferred os.Remove(tempName).
writeSchema(outcome, put) ==
    LET ok == outcome = "ok"
        Leave(files, e) == /\ fs' = files
                            /\ writing' = [writing EXCEPT !.pc = "idle", !.ret = e]
        Go(files, next) == /\ fs' = files
                           /\ writing' = [writing EXCEPT !.pc = next]
        removed == [fs EXCEPT ![tempName] = NoFile]
        t == fs[tempName]
    IN  /\ put \in Prefixes(writing.data)
        /\ (writing.pc = "write" /\ ~ok) \/ put = writing.data
        /\ CASE writing.pc = "mkdir" ->
                    IF ok THEN Go([fs EXCEPT !.dir = IF @.exists THEN @
                                                     ELSE File(<<>>, accountsDirMode)],
                                  "marshal")
                    ELSE Leave(fs, <<"create accounts directory">>)
             [] writing.pc = "marshal" ->
                    IF ok THEN Go(fs, "create")
                    ELSE Leave(fs, <<"encode accounts file">>)
             [] writing.pc = "create" ->
                    IF ok THEN Go([fs EXCEPT ![tempName] = File(<<>>, "0600")], "write")
                    ELSE Leave(fs, <<"create temp accounts file">>)
             [] writing.pc = "write" ->
                    IF ok THEN Go([fs EXCEPT ![tempName] = File(writing.data, t.mode)], "chmod")
                    ELSE Leave(removed, <<"write temp accounts file">>)
             [] writing.pc = "chmod" ->
                    IF ok THEN Go([fs EXCEPT ![tempName] = File(t.content, accountsFileMode)],
                                  "close")
                    ELSE Leave(removed, <<"chmod temp accounts file">>)
             [] writing.pc = "close" ->
                    IF ok THEN Go(fs, "rename")
                    ELSE Leave(removed, <<"close temp accounts file">>)
             [] writing.pc = "rename" ->
                    IF ok THEN Go([removed EXCEPT !.dest = t], "chmodpath")
                    ELSE Leave(removed, <<"replace accounts file">>)
             [] writing.pc = "chmodpath" ->
                    IF ok THEN Leave([fs EXCEPT !.dest = File(@.content, accountsFileMode)],
                                      <<>>)
                    ELSE Leave(fs, <<"chmod accounts file">>)
             [] OTHER -> FALSE
        /\ WriteOnly

\* the process dies inside writeSchema: nothing deferred runs, and a Write in
\* progress has put `put` into the file
Crash(put) ==
    /\ writing.pc \notin {"idle", "crashed"}
    /\ put \in Prefixes(writing.data)
    /\ IF writing.pc = "write"
       THEN fs' = [fs EXCEPT ![tempName] = File(put, @.mode)]
       ELSE put = <<>> /\ UNCHANGED fs
    /\ writing' = [writing EXCEPT !.pc = "crashed", !.ret = <<"killed">>]
    /\ WriteOnly

\* os.ReadFile of the destination by a reader, at any moment
ReadFile ==
    /\ writing.pc # "none"
    /\ writing' = [writing EXCEPT !.seen = fs.dest]
    /\ UNCHANGED fs
    /\ WriteOnly

WriteNext ==
    \/ \E data \in Encodings : WriteCall(data)
    \/ \E outcome \in {"ok", "fail"}, put \in UNION {Prefixes(d) : d \in Encodings} :
            writeSchema(outcome, put)
    \/ \E put \in UNION {Prefixes(d) : d \in Encodings} : Crash(put)
    \/ ReadFile

WriteSpec == WriteInit /\ [][WriteNext]_vars

\* C34: whatever step of a write fails or is cut by a crash, the destination
\* holds the complete content it had before the write or the complete new
\* content, and what a reader has read is complete as well.
C34_DestinationOldOrNew ==
    LET same(f, g) == IF f.exists THEN g.exists /\ g.content = f.content ELSE ~g.exists
        whole(f) == f.exists => f.content \in Encodings
    IN  /\ writing.n > 0 =>
            \/ same(fs.dest, writing.old)
            \/ same(fs.dest, File(writing.data, accountsFileMode))
        /\ whole(fs.dest)
        /\ whole(writing.seen)

\* a crash in the middle of the Write of the temp file, with a file of an
\* earlier write in place, and a reader that has read the destination since
C34_Witness ==
    /\ writing.pc = "crashed"
    /\ fs[tempName].exists
    /\ fs[tempName].content = <<"b1">>
    /\ fs.dest.exists
    /\ writing.seen = fs.dest

\* C35: a Get of the chain that succeeds, for a key whose last Put succeeded
\* with no Put or Delete of the key since, returns the value of that Put,
\* whichever backend stored it.
C35_Claim ==
    (/\ chainRet.op = "Get"
     /\ chainRet.err = <<>>
     /\ chainRet.lastPut[chainRet.key] # "")
        => chainRet.value = chainRet.lastPut[chainRet.key]

\* C36: in a PickAccount that follows an ActivateDefaultOpenAIPool which
\* succeeded on a pool syncing its members, every member whose weekly usage
\* is unknown or below 100 percent is eligible: the pick succeeds and
\* returns each such member as the pick or in the failover list.
C36_Claim ==
    [][(/\ ActivateSucceeded
        /\ pool.AutoSyncMembers
        /\ poolRet'.op = "pick"
        /\ PickAnswered')
            => \A i \in DOMAIN pool.Members :
                LET member == pool.Members[i]
                IN  (\/ poolAccounts[member].Weekly = NoSnapshot
                     \/ poolAccounts[member].Weekly[1] < 100)
                        => /\ picked'.status = "ok"
                           /\ \/ picked'.picked = member
                              \/ \E j \in DOMAIN picked'.failover :
                                    picked'.failover[j] = member]_vars

\* C37: after a GetOrAttachAccountSession that returned no error, whether it
\* minted the session id or re-used a stored one, the persisted runtime has
\* the call's account as ActiveAccountID.
C37_Claim ==
    (sessRet.op = "attach" /\ sessRet.err = "")
        => runtime.exists /\ runtime.ActiveAccountID = sessRet.account

(***************************************************************************)
(* The session continuity service called by several callers at once, for  *)
(* one pool.  Each caller makes one call, GetOrAttachAccountSession or     *)
(* UpdateMemoryPacket.  The repository's lock makes each GetByPoolID and   *)
(* each Save one step; between the two a caller holds no lock and keeps    *)
(* the runtime it loaded.                                                  *)
(***************************************************************************)
NumCallers == 2
Callers == 1..NumCallers
ServiceCalls ==
    {[kind |-> "attach", logical |-> l, account |-> a,
      memory |-> [Summary |-> "", Decisions |-> <<>>]] :
        l \in Logicals, a \in SessionAccounts}
    \cup {[kind |-> "memory", logical |-> l, account |-> "", memory |-> m] :
            l \in Logicals, m \in Packets}

\* runtime.toml holds no entry for the pool, or the entry of the test
RaceInit ==
    /\ poolFile \in
        {[exists |-> FALSE],
         [exists |-> TRUE, ActiveAccountID |-> "", LastSyncedAt |-> <<>>,
          Sessions |->
            {[LogicalSessionID |-> "proj-a",
              AccountSessions |-> {[AccountID |-> "2", SessionID |-> <<"session-2">>]},
              Memory |-> [Summary |-> "existing-memory",
                          Decisions |-> <<>>, UpdatedAt |-> <<>>]]}]}
    /\ caller \in [Callers ->
            {call @@ [pc |-> "load", loaded |-> <<>>, id |-> <<>>, err |-> ""] :
                call \in ServiceCalls}]
    /\ CredOff /\ RefreshOff /\ BatchOff /\ PickOff /\ MidOff /\ WriteOff

\* s.loadRuntime(ctx, poolID) and, in GetOrAttachAccountSession, the return
\* of a session id that is already mapped
CallerLoad(c, loadOutcome) ==
    LET call == caller[c]
        rt == IF poolFile.exists THEN fromPoolRuntimeSchema(poolFile)
              ELSE [ActiveAccountID |-> "", LastSyncedAt |-> 0, Sessions |-> <<>>]
        ledger == LedgerOf(rt, call.logical)
    IN  /\ call.pc = "load"
        /\ caller' = [caller EXCEPT ![c] =
                IF loadOutcome = "error"
                THEN [call EXCEPT !.pc = "done", !.err = "load pool runtime"]
                ELSE IF call.kind = "attach" /\ Attached(ledger, call.account)
                THEN [call EXCEPT !.pc = "done", !.id = ledger.AccountSessions[call.account]]
                ELSE [call EXCEPT !.pc = "save", !.loaded = rt]]
        /\ UNCHANGED poolFile
        /\ RaceOnly

\* the change of the loaded runtime, s.runtime.Save(ctx, runtime) and the return
CallerSave(c, clock, saveOutcome) ==
    LET call == caller[c]
        rt == call.loaded
        ledger == LedgerOf(rt, call.logical)
        sessionID == <<call.logical, ":", call.account>>
        changed ==
            IF call.kind = "attach"
            THEN [ledger EXCEPT !.AccountSessions =
                    [a \in DOMAIN ledger.AccountSessions \cup {call.account} |->
                        IF a = call.account THEN sessionID
                        ELSE ledger.AccountSessions[a]]]
            ELSE [ledger EXCEPT !.Memory = call.memory @@ [UpdatedAt |-> clock]]
        withLedger == WithLedger(rt, call.logical, changed)
        updated == IF call.kind = "attach"
                   THEN [withLedger EXCEPT !.ActiveAccountID = call.account,
                                           !.LastSyncedAt = clock]
                   ELSE [withLedger EXCEPT !.LastSyncedAt = clock]
    IN  /\ call.pc = "save"
        /\ poolFile' = IF saveOutcome = "error" THEN poolFile
                       ELSE toPoolRuntimeSchema(updated)
        /\ caller' = [caller EXCEPT ![c] =
                [call EXCEPT !.pc = "done", !.loaded = <<>>,
                             !.id = IF saveOutcome = "ok" /\ call.kind = "attach"
                                    THEN sessionID ELSE <<>>,
                             !.err = IF saveOutcome = "ok" THEN ""
                                     ELSE "save pool runtime"]]
        /\ RaceOnly

RaceNext ==
    \/ \E c \in Callers, loadOutcome \in {"ok", "error"} : CallerLoad(c, loadOutcome)
    \/ \E c \in Callers, clock \in SessionTimes, saveOutcome \in SaveOutcomes :
            CallerSave(c, clock, saveOutcome)

RaceSpec == RaceInit /\ [][RaceNext]_vars

\* C38: once all concurrent calls for the pool have returned successfully,
\* the persisted runtime holds the mapping every GetOrAttachAccountSession
\* returned and the memory packet of every UpdateMemoryPacket (of the only
\* one for its logical session).
C38_Claim ==
    (\A c \in Callers : caller[c].pc = "done" /\ caller[c].err = "") =>
        /\ poolFile.exists
        /\ \A c \in Callers :
            LET call == caller[c]
                ledger == LedgerOf(fromPoolRuntimeSchema(poolFile), call.logical)
            IN  /\ call.kind = "attach" =>
                    /\ call.account \in DOMAIN ledger.AccountSessions
                    /\ ledger.AccountSessions[call.account] = call.id
                /\ (/\ call.kind = "memory"
                    /\ \A d \in Callers \ {c} :
                        ~(caller[d].kind = "memory" /\ caller[d].logical = call.logical))
                    => /\ ledger.Memory.Summary = call.memory.Summary
                       /\ ledger.Memory.Decisions = call.memory.Decisions

\* ---- fetchAccountsConcurrently under a fair scheduler ----
\* the steps of the goroutines and of the collecting loop; the cancellation
\* is the caller's and may never come
BatchProgress ==
    \/ \E a \in Accounts : Acquire(a) \/ Abandon(a)
    \/ \E a \in Accounts : \E e \in FetchOutcomes(a) : FetchFinish(a, e)
    \/ Close
    \/ \E result \in BagToSet(results) : Collect(result)
    \/ BatchReturn
\* a goroutine that can take a step takes one, and every fetch returns
BatchLiveSpec == BatchSpec /\ WF_vars(BatchProgress)

\* C39: fetchAccountsConcurrently always returns: every goroutine delivers
\* its result, every slot taken is given back, results is closed only after
\* the last goroutine is done, and the collecting loop ends on the closed
\* and drained channel.
C39_BatchTerminates ==
    /\ <>batchRet.returned
    /\ [](batchRet.returned =>
            /\ \A a \in Accounts : goroutine[a] = "done"
            /\ semaphore = 0
            /\ closed /\ results = EmptyBag
            /\ BagCardinality(Collected) = Cardinality(Accounts))
    /\ [](closed => \A a \in Accounts : goroutine[a] = "done")

\* the batch has returned for more accounts than there are slots, one of
\* which gave up on the cancelled context while others fetched
C39_Witness ==
    /\ batchRet.returned
    /\ Cardinality(Accounts) > maxConcurrent
    /\ \E a, b \in Accounts : own[a] = ctxErr /\ own[b] \in FetchOutcomes(b)

====
